---------------------------- MODULE Spec2Model ----------------------------
(***************************************************************************)
(* A model of node-cdb: the constant-database writer (writable-cdb.ts),    *)
(* the reader (readable-cdb.ts) and the hash they share (cdb-util.js).     *)
(*                                                                         *)
(* The writer appends records to a data sink, keeps one (hash, position)   *)
(* list per bucket, and at close serialises one linearly probed slot table *)
(* per bucket followed by the 256-entry header.  The reader decodes the    *)
(* header and answers get/getNext by probing a slot table through a chain  *)
(* of read callbacks; each callback is one action of the model.            *)
(***************************************************************************)
EXTENDS Integers, Sequences, FiniteSets, TLC

\* ------------------------------------------------------------------------
\* Program constants
\* ------------------------------------------------------------------------
HEADER_SIZE == 2048

TABLE_SIZE == 256

\* A 32-bit unsigned hash is held as its two 16-bit halves <<high, low>>.
Half == 65536

ZeroHash == <<0, 0>>

\* (hash >>> 8) % 0 in get(): the quotient by a zero slot count is NaN.
NaN == -1

\* ------------------------------------------------------------------------
\* Bounds of the model
\* ------------------------------------------------------------------------
\* Number of put calls explored on one writer.
MaxPuts == 3

\* Largest occurrence argument handed to get(key, occurrence).
MaxOcc == 1

\* The count of read() calls of one reader operation is tracked up to this value.
MaxReads == 6

\* Number of getNext calls explored after one get.
MaxNexts == 2

\* Largest blockSize a cache wrapper is constructed with.
MaxBlockSize == 2

\* Largest blocksLimit a cache wrapper is constructed with.
MaxBlocksLimit == 4

\* Largest start handed to RawDataReaderCacheWrapper.read.
MaxStart == 1

\* Largest length handed to RawDataReaderCacheWrapper.read.
MaxLength == 3

\* Longest key handed to a hash function on its own.
MaxKeyLen == 4

\* Number of readBlock calls explored on one wrapper when they are made
\* without waiting for each other.
MaxCalls == 3

\* Largest block index handed to such a readBlock call.
MaxIndex == 1

\* Largest number of records of a file on which two gets are issued without
\* waiting for each other.
MaxPairPuts == 2

\* Largest length of a buffer a codec writes to.
MaxBufferLength == 10

\* ------------------------------------------------------------------------
\* Inputs: keys and values are JavaScript strings, modelled as sequences of
\* UTF-16 code units.
\*   "ap", "g6"   two keys of equal length with the same 32-bit hash
\*   "vpbzfti"    a key whose hash is 0
\*   "cphvahfg"   another key whose hash is 0, of another length
\* ------------------------------------------------------------------------
KeyAP == <<97, 112>>

KeyG6 == <<103, 54>>

KeyZero == <<118, 112, 98, 122, 102, 116, 105>>

KeyCPHVAHFG == <<99, 112, 104, 118, 97, 104, 102, 103>>

Keys == {KeyAP, KeyG6, KeyZero, KeyCPHVAHFG}

\* The data of the n-th put: the digit n written n times ("1", "22", "333", ...),
\* so that every put is told apart by its data and by its length.
ValueOfPut(n) == [j \in 1 .. n |-> 48 + n]

\* ------------------------------------------------------------------------
\* Pure functions
\* ------------------------------------------------------------------------
RECURSIVE Xor(_, _)
\* Bitwise exclusive or of two non-negative integers (the ^ operator).
Xor(a, b) ==
    IF a = 0 THEN b
    ELSE IF b = 0 THEN a
    ELSE (((a % 2) + (b % 2)) % 2) + 2 * Xor(a \div 2, b \div 2)

\* (hash << 5) >>> 0
Shl5(h) == <<((h[1] * 32) + ((h[2] * 32) \div Half)) % Half, (h[2] * 32) % Half>>

\* a + b kept as it is, beyond 32 bits.
Add32_NoWrap(a, b) == <<a[1] + b[1] + ((a[2] + b[2]) \div Half), (a[2] + b[2]) % Half>>

\* a + b brought back to 32 bits by the following ^ and >>> 0
Add32(a, b) == <<(a[1] + b[1] + ((a[2] + b[2]) \div Half)) % Half, (a[2] + b[2]) % Half>>

\* hash ^ unit for a UTF-16 code unit (0 .. 65535)
XorUnit(h, unit) == <<h[1], Xor(h[2], unit)>>

\* hash & 255
Low8(h) == h[2] % 256

\* hash >>> 8
Shr8(h) == (h[1] * 256) + (h[2] \div 256)

RECURSIVE hashKey(_, _, _)
\* The loop of cdbHash from index i on, with accumulator hash.
hashKey(key, i, hash) ==
    IF i > Len(key) THEN hash
    ELSE hashKey(key, i + 1, XorUnit(Add32(Shl5(hash), hash), key[i]))

cdbHash(key) == hashKey(key, 1, <<0, 5381>>)

\* The hash of every key of the model, computed once.
HashOf == [k \in Keys |-> cdbHash(k)]

\* UTF-8 bytes of one code unit (Buffer.write / Buffer.byteLength on a string).
Utf8Unit(u) ==
    IF u < 128 THEN <<u>>
    ELSE IF u < 2048 THEN <<192 + (u \div 64), 128 + (u % 64)>>
    ELSE <<224 + (u \div 4096), 128 + ((u \div 64) % 64), 128 + (u % 64)>>

RECURSIVE Utf8Encode(_)
Utf8Encode(s) ==
    IF s = <<>> THEN <<>> ELSE Utf8Unit(Head(s)) \o Utf8Encode(Tail(s))

byteLength(s) == Len(Utf8Encode(s))

RECURSIVE BufferToString(_)
\* Buffer.toString(): UTF-8 decoding of the stored bytes.
BufferToString(b) ==
    IF b = <<>> THEN <<>>
    ELSE IF b[1] < 128 THEN <<b[1]>> \o BufferToString(Tail(b))
    ELSE IF b[1] < 224 /\ Len(b) >= 2
         THEN <<(b[1] - 192) * 64 + (b[2] - 128)>> \o BufferToString(SubSeq(b, 3, Len(b)))
    ELSE IF Len(b) >= 3
         THEN <<(b[1] - 224) * 4096 + (b[2] - 128) * 64 + (b[3] - 128)>>
              \o BufferToString(SubSeq(b, 4, Len(b)))
    ELSE <<65533>>

\* ------------------------------------------------------------------------
\* Hashtable builder and header codec (helper functions of writable-cdb.ts)
\* ------------------------------------------------------------------------
RECURSIVE EmptySlot(_, _, _)
\* The "look for an empty slot" loop: a slot is free when its first 32-bit
\* word, the hash field, reads 0.
EmptySlot(buffer, slot, slotCount) ==
    IF buffer[slot].hash # ZeroHash
    THEN EmptySlot(buffer, (slot + 1) % slotCount, slotCount)
    ELSE slot

RECURSIVE FillHashtable(_, _, _)
\* The for loop of getBufferForHashtable from entry i on (entries are 1-based here).
FillHashtable(hashtable, i, buffer) ==
    IF i > Len(hashtable) THEN buffer
    ELSE LET slotCount == Len(hashtable) * 2
             hash      == hashtable[i].hash
             position  == hashtable[i].position
             slot      == EmptySlot(buffer, Shr8(hash) % slotCount, slotCount)
         IN  FillHashtable(hashtable, i + 1,
                 [buffer EXCEPT ![slot] = [hash |-> hash, position |-> position]])

\* A builder that fills the slots from slot 0 on in list order, whatever the
\* hashes are.
getBufferForHashtable_InListOrder(hashtable) ==
    [s \in 0 .. (Len(hashtable) * 2 - 1) |->
        IF s < Len(hashtable)
        THEN [hash |-> hashtable[s + 1].hash, position |-> hashtable[s + 1].position]
        ELSE [hash |-> ZeroHash, position |-> 0]]

\* The zero-filled buffer of 2n slots, filled entry by entry; slots are indexed from 0.
getBufferForHashtable(hashtable) ==
    FillHashtable(hashtable, 1,
        [s \in 0 .. (Len(hashtable) * 2 - 1) |-> [hash |-> ZeroHash, position |-> 0]])

\* The buffer as the sequence of slots appended to the hashtable sink.
BufferSlots(buffer, slotCount) == [j \in 1 .. slotCount |-> buffer[j - 1]]

\* The 256 (position, slots) pairs as written by getBufferForHeader.
getBufferForHeader(headerTable) ==
    [i \in 0 .. (TABLE_SIZE - 1) |->
        [position |-> headerTable[i].position, slots |-> headerTable[i].slots]]

RECURSIVE TableBytes(_, _)
\* Total buffer.length of the slot tables of the buckets in S.
TableBytes(tables, S) ==
    IF S = {} THEN 0
    ELSE LET j == CHOOSE x \in S : TRUE
         IN  (Len(tables[j]) * 2 * 8) + TableBytes(tables, S \ {j})

\* this.filePosition at the start of iteration i of the for loop of
\* writeHashtables, fp being its value before the loop: every earlier
\* iteration added its buffer.length, which is 0 for a bucket without entries.
FilePositionAt(i, tables, fp) ==
    fp + TableBytes(tables, {j \in DOMAIN tables : j < i})

\* A loop that records the position it started from for every bucket.
HeaderEntry_Stale(i, tables, fp) ==
    LET hashtable == IF i \in DOMAIN tables THEN tables[i] ELSE <<>>
    IN  [position |-> fp, slots |-> Len(hashtable) * 2]

\* The header entry recorded by iteration i.
HeaderEntry(i, tables, fp) ==
    LET hashtable == IF i \in DOMAIN tables THEN tables[i] ELSE <<>>
    IN  [position |-> FilePositionAt(i, tables, fp), slots |-> Len(hashtable) * 2]

RECURSIVE WrittenTables(_, _)
\* The buffers handed to hashtableStream.write by the iterations for the
\* buckets in S, in index order (the buffer of an empty bucket has length 0).
WrittenTables(tables, S) ==
    IF S = {} THEN <<>>
    ELSE LET j == CHOOSE x \in S : \A y \in S : x <= y
         IN  BufferSlots(getBufferForHashtable(tables[j]), Len(tables[j]) * 2)
             \o WrittenTables(tables, S \ {j})

\* ------------------------------------------------------------------------
\* The file
\* ------------------------------------------------------------------------
\* A record as put lays it out: two length words, the key bytes, the data bytes.
Record(key, data) ==
    [keyLength  |-> byteLength(key),
     dataLength |-> byteLength(data),
     key        |-> Utf8Encode(key),
     data       |-> Utf8Encode(data)]

RecordLength(r) == 8 + Len(r.key) + Len(r.data)

\* A file created by createWriteStream(file, {start: HEADER_SIZE}): the header
\* region reads as zeros until the header is written.
ZeroHeader == [i \in 0 .. (TABLE_SIZE - 1) |-> [position |-> 0, slots |-> 0]]

EmptyFile == [header |-> ZeroHeader, data |-> <<>>, tableStart |-> 0, tables |-> <<>>]

RECURSIVE RecordOffset(_, _)
\* File offset of the k-th record of the data region.
RecordOffset(data, k) ==
    IF k = 1 THEN HEADER_SIZE
    ELSE RecordOffset(data, k - 1) + RecordLength(data[k - 1])

\* Indices of the records that start at file offset off (at most one).
RecordsAt(f, off) == {k \in 1 .. Len(f.data) : RecordOffset(f.data, k) = off}

RecordAt(f, off) == f.data[CHOOSE k \in RecordsAt(f, off) : TRUE]

\* The slot stored at file offset off, if off is where a slot was written.
\* Bytes never written read as zeros (the buffer handed to read is zero-filled).
SlotAt(f, off) ==
    IF /\ off >= f.tableStart
       /\ (off - f.tableStart) % 8 = 0
       /\ (off - f.tableStart) \div 8 < Len(f.tables)
    THEN f.tables[((off - f.tableStart) \div 8) + 1]
    ELSE [hash |-> ZeroHash, position |-> 0]

\* fs.read of 8 bytes at off, decoded as two little-endian 32-bit numbers:
\* a header entry, the two length words of a record, or zeros.
ReadWords(f, off) ==
    IF off >= 0 /\ off < HEADER_SIZE /\ off % 8 = 0
    THEN <<f.header[off \div 8].position, f.header[off \div 8].slots>>
    ELSE IF RecordsAt(f, off) # {}
    THEN <<RecordAt(f, off).keyLength, RecordAt(f, off).dataLength>>
    ELSE <<0, 0>>

\* Indices of the records whose key/data bytes cover file offset off.
RecordsCovering(f, off) ==
    {k \in 1 .. Len(f.data) :
        /\ RecordOffset(f.data, k) + 8 <= off
        /\ off < RecordOffset(f.data, k) + RecordLength(f.data[k])}

\* fs.read of length bytes at off (key or data bytes of a record).
ReadBytes(f, off, length) ==
    IF length = 0 THEN <<>>
    ELSE IF RecordsCovering(f, off) # {}
    THEN LET k     == CHOOSE j \in RecordsCovering(f, off) : TRUE
             bytes == f.data[k].key \o f.data[k].data
             from  == off - (RecordOffset(f.data, k) + 8) + 1
         IN  SubSeq(bytes, from, from + length - 1)
    ELSE [j \in 1 .. length |-> 0]

\* ------------------------------------------------------------------------
\* State
\* ------------------------------------------------------------------------
VARIABLES
    \* --- CDBWritable ---
    wpc,            \* where the writer is in open / put / close
    recordStream,   \* "null" | "open" | "ending" | "finished"
    filePosition,   \* this.filePosition
    hashtables,     \* this.hashtables: sparse array, bucket index -> entries
    header,         \* this.header: sparse array, bucket index -> (position, slots)
    file,           \* the file on disk
    puts,           \* the (key, data) pairs handed to an open data sink, in order
    nputs,          \* number of put calls made
    lastPut,        \* outcome of the latest put call
    closeCb,        \* what close's callback received: "none" | "ok" | "err"
    events,         \* events the writer has emitted
    ioError         \* the I/O phase that failed, "none" if none did

wvars == <<wpc, recordStream, filePosition, hashtables, header, file, puts,
           nputs, lastPut, closeCb, events, ioError>>

VARIABLES
    rpc,        \* "closed" | "opening" | "headerReading" | "idle" | the pending read callback
    rheader,    \* this.header
    env,        \* the variables closed over by the running get
    bookmark,   \* this.bookmark: the closure saved by returnData, with its variables
    op,         \* the operation in progress, or the last one
    reads,      \* read() calls issued by that operation
    calls,      \* number of times its callback has been invoked
    result,     \* what the callback received
    chain       \* the enumeration started by the last get that returned data

rvars == <<rpc, rheader, env, bookmark, op, reads, calls, result, chain>>

VARIABLES
    \* --- RawDataReaderCacheWrapper ---
    cpc,          \* "new" | "threw" | "idle" | "reading"
    carg,         \* the reader argument handed to the constructor
    creader,      \* this.reader
    blockSize,    \* this.blockSize
    blocksLimit,  \* this.blocksLimit
    newCache,     \* this.newCache: block index -> block
    oldCache,     \* this.oldCache: block index -> block
    rotated,      \* block index -> rotations (1, or 2 for more) since its last readBlock
    cop,          \* the read(start, length) in progress, or the last one
    cblocks,      \* its readBlock calls, in index order
    cresult       \* what it returned

VARIABLES
    \* --- cdbHash / originalHash / defaultHash ---
    hpc,          \* "new" | "looping" | "returned"
    hfn,          \* the function called
    hkey,         \* its argument key
    hi,           \* the loop variable i
    hhash,        \* the loop variable hash
    hresult       \* the value returned

VARIABLES
    \* --- a second get issued on the reader before the first has called back ---
    other         \* the closure variables of the get that is not running now

VARIABLES
    \* --- uInt32LE / uInt64LE / uInt64LEBigInt ---
    kpc,          \* "new" | "written" | "threw" | "read"
    kcodec,       \* the codec called
    kbuffer,      \* the buffer before the write
    koffset,      \* the offset argument
    kvalue,       \* the value argument
    kafter,       \* the buffer after the write
    kread         \* the value read back

hvars == <<hpc, hfn, hkey, hi, hhash, hresult>>

pvars == <<other>>

kvars == <<kpc, kcodec, kbuffer, koffset, kvalue, kafter, kread>>

cvars == <<cpc, carg, creader, blockSize, blocksLimit, newCache, oldCache,
           rotated, cop, cblocks, cresult>>

vars == <<wpc, recordStream, filePosition, hashtables, header, file, puts,
          nputs, lastPut, closeCb, events, ioError,
          rpc, rheader, env, bookmark, op, reads, calls, result, chain,
          cpc, carg, creader, blockSize, blocksLimit, newCache, oldCache,
          rotated, cop, cblocks, cresult,
          hpc, hfn, hkey, hi, hhash, hresult,
          other, kpc, kcodec, kbuffer, koffset, kvalue, kafter, kread>>

NoPut == [outcome |-> "none", okayToWrite |-> FALSE]

WInit ==
    /\ wpc = "new"
    /\ recordStream = "null"
    /\ filePosition = 0
    /\ hashtables = <<>>
    /\ header = <<>>
    /\ file = EmptyFile
    /\ puts = <<>>
    /\ nputs = 0
    /\ lastPut = NoPut
    /\ closeCb = "none"
    /\ events = {}
    /\ ioError = "none"

\* ------------------------------------------------------------------------
\* CDBWritable.open
\* ------------------------------------------------------------------------
\* open(): createWriteStream and the two once() registrations.
WOpen ==
    /\ wpc = "new"
    /\ wpc' = "opening"
    /\ UNCHANGED <<recordStream, filePosition, hashtables, header, file, puts,
                   nputs, lastPut, closeCb, events, ioError>>
    /\ UNCHANGED <<rvars, cvars, hvars, pvars, kvars>>

\* A fileOpened that leaves this.filePosition at its initial value 0.
FileOpened_KeepsZero ==
    /\ wpc = "opening"
    /\ recordStream' = "open"
    /\ events' = events \cup {"open"}
    /\ wpc' = "open"
    /\ UNCHANGED <<filePosition, hashtables, header, file, puts, nputs, lastPut,
                   closeCb, ioError>>
    /\ UNCHANGED <<rvars, cvars, hvars, pvars, kvars>>

\* fileOpened: the sink emitted 'open'.
FileOpened ==
    /\ wpc = "opening"
    /\ recordStream' = "open"
    /\ filePosition' = HEADER_SIZE
    /\ events' = events \cup {"open"}
    /\ wpc' = "open"
    /\ UNCHANGED <<hashtables, header, file, puts, nputs, lastPut, closeCb, ioError>>
    /\ UNCHANGED <<rvars, cvars, hvars, pvars, kvars>>

\* error (of open): the sink emitted 'error' before 'open'.  emit('error')
\* throws when the caller registered no 'error' listener on the writer.
OpenError ==
    /\ wpc = "opening"
    /\ ioError' = "open"
    /\ \E listening \in BOOLEAN :
          IF listening
          THEN /\ events' = events \cup {"error"}
               /\ wpc' = "openFailed"
          ELSE /\ events' = events
               /\ wpc' = "crashed"
    /\ UNCHANGED <<recordStream, filePosition, hashtables, header, file, puts,
                   nputs, lastPut, closeCb>>
    /\ UNCHANGED <<rvars, cvars, hvars, pvars, kvars>>

\* ------------------------------------------------------------------------
\* CDBWritable.put
\* ------------------------------------------------------------------------
\* hashtable.push after the "if (!hashtable)" initialisation.
PushEntry(tables, hashtableIndex, entry) ==
    IF hashtableIndex \in DOMAIN tables
    THEN [tables EXCEPT ![hashtableIndex] = Append(@, entry)]
    ELSE (hashtableIndex :> <<entry>>) @@ tables

\* A put whose bookkeeping waits for the sink: when write returns false the
\* entry is not pushed and the position is not advanced.
PutOpen_Contingent(key, data) ==
    /\ wpc = "open"
    /\ recordStream = "open"
    /\ nputs < MaxPuts
    /\ file' = [file EXCEPT !.data = Append(@, Record(key, data))]
    /\ \E okayToWrite \in BOOLEAN :
          /\ lastPut' = [outcome |-> "written", okayToWrite |-> okayToWrite]
          /\ IF okayToWrite
             THEN /\ hashtables' = PushEntry(hashtables, Low8(HashOf[key]),
                                        [hash |-> HashOf[key], position |-> filePosition])
                  /\ filePosition' = filePosition + RecordLength(Record(key, data))
             ELSE UNCHANGED <<hashtables, filePosition>>
    /\ puts' = Append(puts, <<key, data>>)
    /\ nputs' = nputs + 1
    /\ UNCHANGED <<wpc, recordStream, header, closeCb, events, ioError>>

\* put(key, data) on a writer whose data sink accepts writes.  okayToWrite is
\* the sink's backpressure answer.
PutOpen(key, data) ==
    /\ wpc = "open"
    /\ recordStream = "open"
    /\ nputs < MaxPuts
    /\ LET record         == Record(key, data)
           hash           == HashOf[key]
           hashtableIndex == Low8(hash)
       IN  /\ file' = [file EXCEPT !.data = Append(@, record)]
           /\ hashtables' = PushEntry(hashtables, hashtableIndex,
                                      [hash |-> hash, position |-> filePosition])
           /\ filePosition' = filePosition + RecordLength(record)
    /\ \E okayToWrite \in BOOLEAN :
          lastPut' = [outcome |-> "written", okayToWrite |-> okayToWrite]
    /\ puts' = Append(puts, <<key, data>>)
    /\ nputs' = nputs + 1
    /\ UNCHANGED <<wpc, recordStream, header, closeCb, events, ioError>>

\* put(key, data) after the data sink has finished (close failed later on):
\* write() hands ERR_STREAM_WRITE_AFTER_END to the callback and returns false;
\* the rest of put runs as usual.
PutEnded(key, data) ==
    /\ wpc = "closeFailed"
    /\ recordStream = "finished"
    /\ nputs < MaxPuts
    /\ LET record         == Record(key, data)
           hash           == HashOf[key]
           hashtableIndex == Low8(hash)
       IN  /\ hashtables' = PushEntry(hashtables, hashtableIndex,
                                      [hash |-> hash, position |-> filePosition])
           /\ filePosition' = filePosition + RecordLength(record)
    /\ lastPut' = [outcome |-> "writeAfterEnd", okayToWrite |-> FALSE]
    /\ nputs' = nputs + 1
    /\ UNCHANGED <<wpc, recordStream, header, file, puts, closeCb, events, ioError>>

\* put(key, data) when open failed: this.recordStream is undefined and
\* this.recordStream.write throws a TypeError before any bookkeeping.
PutUnopened(key, data) ==
    /\ wpc = "openFailed"
    /\ recordStream = "null"
    /\ nputs < MaxPuts
    /\ lastPut' = [outcome |-> "threw", okayToWrite |-> FALSE]
    /\ nputs' = nputs + 1
    /\ UNCHANGED <<wpc, recordStream, filePosition, hashtables, header, file,
                   puts, closeCb, events, ioError>>

put(key, data) ==
    \/ PutOpen(key, data)
    \/ PutEnded(key, data)
    \/ PutUnopened(key, data)

Put ==
    /\ \E key \in Keys : put(key, ValueOfPut(nputs + 1))
    /\ UNCHANGED <<rvars, cvars, hvars, pvars, kvars>>

\* The data sink emitted 'error' after open.  fileOpened removed the only
\* 'error' listener of the sink, so the event is unhandled and ends the process.
RecordStreamError ==
    /\ wpc \in {"open", "ending"}
    /\ recordStream \in {"open", "ending"}
    /\ ioError' = "data"
    /\ wpc' = "crashed"
    /\ UNCHANGED <<recordStream, filePosition, hashtables, header, file, puts,
                   nputs, lastPut, closeCb, events>>
    /\ UNCHANGED <<rvars, cvars, hvars, pvars, kvars>>

\* ------------------------------------------------------------------------
\* CDBWritable.close
\* ------------------------------------------------------------------------
\* close(): registers openStreamForHashtable on 'finish' and ends the data sink.
Close ==
    /\ wpc = "open"
    /\ recordStream' = "ending"
    /\ wpc' = "ending"
    /\ lastPut' = NoPut
    /\ UNCHANGED <<filePosition, hashtables, header, file, puts, nputs, closeCb,
                   events, ioError>>
    /\ UNCHANGED <<rvars, cvars, hvars, pvars, kvars>>

\* close() on a writer whose earlier close failed: the data sink has already
\* finished, 'finish' is not emitted again and nothing calls back.
CloseAgain ==
    /\ wpc = "closeFailed"
    /\ wpc' = "closeHung"
    /\ closeCb' = "none"
    /\ lastPut' = NoPut
    /\ UNCHANGED <<recordStream, filePosition, hashtables, header, file, puts,
                   nputs, events, ioError>>
    /\ UNCHANGED <<rvars, cvars, hvars, pvars, kvars>>

\* openStreamForHashtable: the data sink emitted 'finish'.
OpenStreamForHashtable ==
    /\ wpc = "ending"
    /\ recordStream' = "finished"
    /\ file' = [file EXCEPT !.tableStart = filePosition]
    /\ wpc' = "hashtableOpening"
    /\ UNCHANGED <<filePosition, hashtables, header, puts, nputs, lastPut,
                   closeCb, events, ioError>>
    /\ UNCHANGED <<rvars, cvars, hvars, pvars, kvars>>

\* error (of close): self.emit('error', err); callback(err).  emit throws
\* when the caller registered no 'error' listener on the writer.
CloseError(phase) ==
    /\ ioError' = phase
    /\ \E listening \in BOOLEAN :
          IF listening
          THEN /\ events' = events \cup {"error"}
               /\ closeCb' = "err"
               /\ wpc' = "closeFailed"
          ELSE /\ events' = events
               /\ closeCb' = closeCb
               /\ wpc' = "crashed"

\* The hashtable sink emitted 'error' instead of 'open'.
HashtableOpenError ==
    /\ wpc = "hashtableOpening"
    /\ CloseError("hashtableOpen")
    /\ UNCHANGED <<recordStream, filePosition, hashtables, header, file, puts,
                   nputs, lastPut>>
    /\ UNCHANGED <<rvars, cvars, hvars, pvars, kvars>>

\* A writeHashtables that frees every bucket list without building and
\* writing its slot table.
WriteHashtables_FreesOnly ==
    /\ wpc = "hashtableOpening"
    /\ header' = [i \in 0 .. (TABLE_SIZE - 1) |-> HeaderEntry(i, hashtables, filePosition)]
    /\ filePosition' = FilePositionAt(TABLE_SIZE, hashtables, filePosition)
    /\ hashtables' = <<>>
    /\ wpc' = "hashtableEnding"
    /\ UNCHANGED <<recordStream, file, puts, nputs, lastPut, closeCb, events, ioError>>
    /\ UNCHANGED <<rvars, cvars, hvars, pvars, kvars>>

\* writeHashtables: the hashtable sink emitted 'open'.
WriteHashtables ==
    /\ wpc = "hashtableOpening"
    /\ header' = [i \in 0 .. (TABLE_SIZE - 1) |-> HeaderEntry(i, hashtables, filePosition)]
    /\ file' = [file EXCEPT !.tables = WrittenTables(hashtables, DOMAIN hashtables)]
    /\ filePosition' = FilePositionAt(TABLE_SIZE, hashtables, filePosition)
    /\ hashtables' = <<>>
    /\ wpc' = "hashtableEnding"
    /\ UNCHANGED <<recordStream, puts, nputs, lastPut, closeCb, events, ioError>>
    /\ UNCHANGED <<rvars, cvars, hvars, pvars, kvars>>

\* The hashtable sink emitted 'error' while flushing the slot tables.
HashtableWriteError ==
    /\ wpc = "hashtableEnding"
    /\ file' = [file EXCEPT !.tables = <<>>]
    /\ CloseError("hashtableWrite")
    /\ UNCHANGED <<recordStream, filePosition, hashtables, header, puts, nputs,
                   lastPut>>
    /\ UNCHANGED <<rvars, cvars, hvars, pvars, kvars>>

\* writeHeader: the hashtable sink emitted 'finish'.
WriteHeader ==
    /\ wpc = "hashtableEnding"
    /\ wpc' = "headerWriting"
    /\ UNCHANGED <<recordStream, filePosition, hashtables, header, file, puts,
                   nputs, lastPut, closeCb, events, ioError>>
    /\ UNCHANGED <<rvars, cvars, hvars, pvars, kvars>>

\* A close that signals completion as soon as the hashtable sink was ended,
\* without waiting for the header write.
finished_Early(err) ==
    /\ wpc = "hashtableEnding"
    /\ events' = events \cup {"finish"}
    /\ closeCb' = "ok"
    /\ wpc' = "finished"
    /\ UNCHANGED <<recordStream, filePosition, hashtables, header, file, puts,
                   nputs, lastPut, ioError>>

\* finished: the callback of writeFile.  Its error argument is not looked at.
finished(err) ==
    /\ wpc = "headerWriting"
    /\ IF err
       THEN /\ ioError' = "header"
            /\ file' = file
       ELSE /\ ioError' = ioError
            /\ file' = [file EXCEPT !.header = getBufferForHeader(header)]
    /\ events' = events \cup {"finish"}
    /\ closeCb' = "ok"
    /\ wpc' = "finished"
    /\ UNCHANGED <<recordStream, filePosition, hashtables, header, puts, nputs,
                   lastPut>>

Finished ==
    /\ \E err \in BOOLEAN : finished(err)
    /\ UNCHANGED <<rvars, cvars, hvars, pvars, kvars>>

\* ------------------------------------------------------------------------
\* CDBReadable
\* ------------------------------------------------------------------------
NoEnv == [key |-> <<>>, hash |-> ZeroHash, position |-> 0, slotCount |-> 0, slot |-> 0,
          offset |-> 0, trueKeyLength |-> 0, hashPosition |-> 0,
          recordPosition |-> 0, keyLength |-> 0, dataLength |-> 0, live |-> FALSE]

NoOp == [name |-> "none", key |-> <<>>, occurrence |-> 0]

NoResult == [kind |-> "none", bytes |-> <<>>]

NotFound == [kind |-> "notFound", bytes |-> <<>>]

IOError == [kind |-> "error", bytes |-> <<>>]

Data(bytes) == [kind |-> "data", bytes |-> bytes]

\* key and occurrence of the get that started the enumeration, the number of
\* getNext calls made since, and whether all of them completed without I/O error.
NoChain == [key |-> <<>>, occurrence |-> 0, nexts |-> 0, clean |-> FALSE]

RInit ==
    /\ rpc = "closed"
    /\ rheader = <<>>
    /\ env = NoEnv
    /\ bookmark = NoEnv
    /\ op = NoOp
    /\ reads = 0
    /\ calls = 0
    /\ result = NoResult
    /\ chain = NoChain

\* One more read() call of the current operation.
CountRead(n) == IF n < MaxReads THEN n + 1 ELSE MaxReads

\* open(): fs.open of the file a completed close left behind.
ROpen ==
    /\ rpc = "closed"
    /\ wpc = "finished"
    /\ rpc' = "opening"
    /\ UNCHANGED <<rheader, env, bookmark, op, reads, calls, result, chain>>
    /\ UNCHANGED <<wvars, cvars, hvars, pvars, kvars>>

\* readHeader: the callback of fs.open.
readHeader(err) ==
    /\ rpc = "opening"
    /\ IF err
       THEN /\ rpc' = "openFailed"
            /\ result' = IOError
       ELSE /\ rpc' = "headerReading"
            /\ result' = result
    /\ UNCHANGED <<rheader, env, bookmark, op, reads, calls, chain>>

\* parseHeader: the callback of the header read.
parseHeader(err) ==
    /\ rpc = "headerReading"
    /\ IF err
       THEN /\ rpc' = "openFailed"
            /\ result' = IOError
            /\ rheader' = rheader
       ELSE /\ rpc' = "idle"
            /\ result' = result
            /\ rheader' = [i \in 0 .. (TABLE_SIZE - 1) |->
                              [position  |-> ReadWords(file, i * 8)[1],
                               slotCount |-> ReadWords(file, i * 8)[2]]]
    /\ UNCHANGED <<env, bookmark, op, reads, calls, chain>>

\* The enumeration after an operation has delivered r.
ChainAfter(r) ==
    IF op.name = "getNext"
    THEN [chain EXCEPT !.clean = @ /\ r.kind # "error"]
    ELSE [key |-> op.key, occurrence |-> op.occurrence, nexts |-> 0,
          clean |-> r.kind = "data"]

\* The operation's callback is invoked with r and the operation is over.
\* The closure run by getNext is this.bookmark itself, so the variables it
\* changed stay in the bookmark; returnData stores the closure of a get.
Deliver(r, e, fromReturnData) ==
    /\ result' = r
    /\ calls' = calls + 1
    /\ rpc' = "idle"
    /\ env' = NoEnv
    /\ bookmark' = IF fromReturnData \/ op.name = "getNext" THEN e ELSE bookmark
    /\ chain' = IF fromReturnData \/ op.name = "getNext" THEN ChainAfter(r) ELSE chain
    /\ UNCHANGED reads

\* position + ((slot % slotCount) * 8), NaN when slotCount is 0.
HashPosition(position, slot, slotCount) ==
    IF slotCount = 0 THEN NaN ELSE position + ((slot % slotCount) * 8)

\* readSlot(slot).  The slot variable is kept modulo slotCount, which is the
\* only way readSlot uses it.
readSlot(e, slot) ==
    /\ env' = [e EXCEPT !.slot = IF e.slotCount = 0 THEN NaN ELSE slot % e.slotCount,
                        !.hashPosition = HashPosition(e.position, slot, e.slotCount)]
    /\ reads' = CountRead(reads)
    /\ rpc' = "checkHash"
    /\ UNCHANGED <<result, calls, chain, bookmark>>

\* A get that lacks the test and probes a bucket without slots.
IsEmptyTable_Never(slotCount) == FALSE

\* The test "slotCount === 0" of get.
IsEmptyTable(slotCount) == slotCount = 0

\* The body of get(key, offset): the closure variables, the test for a bucket
\* without slots, and readSlot(slot).
StartGet(key, offset) ==
    /\ LET hash           == HashOf[key]
           hashtableIndex == Low8(hash)
           hashtable      == rheader[hashtableIndex]
           position       == hashtable.position
           slotCount      == hashtable.slotCount
           slot           == IF slotCount = 0 THEN NaN ELSE Shr8(hash) % slotCount
           e == [key |-> key, hash |-> hash, position |-> position,
                 slotCount |-> slotCount, slot |-> slot, offset |-> offset,
                 trueKeyLength |-> byteLength(key), hashPosition |-> 0,
                 recordPosition |-> 0, keyLength |-> 0, dataLength |-> 0,
                 live |-> TRUE]
       IN  /\ op' = [name |-> "get", key |-> key, occurrence |-> offset]
           /\ IF IsEmptyTable(slotCount)
              THEN /\ result' = NotFound
                   /\ calls' = 1
                   /\ reads' = 0
                   /\ rpc' = "idle"
                   /\ env' = NoEnv
                   /\ chain' = chain
              ELSE /\ env' = [e EXCEPT !.hashPosition = HashPosition(position, slot, slotCount)]
                   /\ reads' = 1
                   /\ calls' = 0
                   /\ result' = NoResult
                   /\ rpc' = "checkHash"
                   /\ chain' = chain
    /\ UNCHANGED <<rheader, bookmark>>

\* get(key, offset).  A session looks keys up until a get returns data and
\* then enumerates that key with getNext.
get(key, offset) ==
    /\ rpc = "idle"
    /\ ~bookmark.live
    /\ StartGet(key, offset)

Get ==
    /\ ~other.used
    /\ \E key \in Keys, offset \in 0 .. MaxOcc : get(key, offset)
    /\ UNCHANGED <<wvars, cvars, hvars, pvars, kvars>>

\* checkHash: the callback of the slot read.
checkHash(err) ==
    /\ rpc = "checkHash"
    /\ IF err
       THEN Deliver(IOError, env, FALSE)
       ELSE LET recordHash     == SlotAt(file, env.hashPosition).hash
                recordPosition == SlotAt(file, env.hashPosition).position
                e == [env EXCEPT !.recordPosition = recordPosition]
            IN  IF recordHash = env.hash
                THEN /\ env' = e
                     /\ reads' = CountRead(reads)
                     /\ rpc' = "readKey"
                     /\ UNCHANGED <<result, calls, chain, bookmark>>
                ELSE IF recordHash = ZeroHash
                THEN Deliver(NotFound, e, FALSE)
                ELSE readSlot(e, env.slot + 1)
    /\ UNCHANGED <<rheader, op>>

\* A readKey without the length test: it reads the stored key of every record
\* whose slot matched the hash.
readKey_ReadsKey(err) ==
    /\ rpc = "readKey"
    /\ IF err
       THEN Deliver(IOError, env, FALSE)
       ELSE LET words == ReadWords(file, env.recordPosition)
            IN  /\ env' = [env EXCEPT !.keyLength = words[1], !.dataLength = words[2]]
                /\ reads' = CountRead(reads)
                /\ rpc' = "checkKey"
                /\ UNCHANGED <<result, calls, chain, bookmark>>
    /\ UNCHANGED <<rheader, op>>

\* readKey: the callback of the read of the record's two length words.
readKey(err) ==
    /\ rpc = "readKey"
    /\ IF err
       THEN Deliver(IOError, env, FALSE)
       ELSE LET words == ReadWords(file, env.recordPosition)
                e == [env EXCEPT !.keyLength = words[1], !.dataLength = words[2]]
            IN  IF e.keyLength # env.trueKeyLength
                THEN readSlot(e, env.slot + 1)
                ELSE /\ env' = e
                     /\ reads' = CountRead(reads)
                     /\ rpc' = "checkKey"
                     /\ UNCHANGED <<result, calls, chain, bookmark>>
    /\ UNCHANGED <<rheader, op>>

\* checkKey: the callback of the read of the stored key bytes.
checkKey(err) ==
    /\ rpc = "checkKey"
    /\ IF err
       THEN Deliver(IOError, env, FALSE)
       ELSE LET buffer == ReadBytes(file, env.recordPosition + 8, env.keyLength)
            IN  IF BufferToString(buffer) = env.key /\ env.offset = 0
                THEN /\ reads' = CountRead(reads)
                     /\ rpc' = "returnData"
                     /\ UNCHANGED <<env, result, calls, chain, bookmark>>
                ELSE IF env.offset # 0
                THEN readSlot([env EXCEPT !.offset = @ - 1], env.slot + 1)
                ELSE readSlot(env, env.slot + 1)
    /\ UNCHANGED <<rheader, op>>

\* returnData: the callback of the read of the data bytes.
returnData(err) ==
    /\ rpc = "returnData"
    /\ LET buffer == ReadBytes(file, env.recordPosition + 8 + env.keyLength,
                               env.dataLength)
       IN  Deliver(IF err THEN IOError ELSE Data(buffer), env, TRUE)
    /\ UNCHANGED <<rheader, op>>

\* getNext(callback) with a bookmark: the saved closure takes the new callback
\* and calls readSlot(++slot).
GetNextBookmark ==
    /\ rpc = "idle"
    /\ bookmark.live
    /\ chain.nexts < MaxNexts
    /\ op' = [name |-> "getNext", key |-> bookmark.key, occurrence |-> 0]
    /\ env' = [bookmark EXCEPT
                  !.slot = (bookmark.slot + 1) % bookmark.slotCount,
                  !.hashPosition = HashPosition(bookmark.position, bookmark.slot + 1,
                                                bookmark.slotCount)]
    /\ reads' = 1
    /\ calls' = 0
    /\ result' = NoResult
    /\ rpc' = "checkHash"
    /\ chain' = [chain EXCEPT !.nexts = @ + 1]
    /\ UNCHANGED <<rheader, bookmark>>
    /\ UNCHANGED <<wvars, cvars, hvars, pvars, kvars>>

\* getNext(callback) without a bookmark: the body of getNext does nothing.
GetNextNoBookmark ==
    /\ rpc = "idle"
    /\ ~bookmark.live
    /\ op.name # "getNext"
    /\ op' = [name |-> "getNext", key |-> <<>>, occurrence |-> 0]
    /\ reads' = 0
    /\ calls' = 0
    /\ result' = NoResult
    /\ UNCHANGED <<rpc, rheader, env, bookmark, chain>>
    /\ UNCHANGED <<wvars, cvars, hvars, pvars, kvars>>

\* close(callback)
RClose ==
    /\ rpc = "idle"
    /\ rpc' = "readerClosed"
    /\ UNCHANGED <<rheader, env, bookmark, op, reads, calls, result, chain>>
    /\ UNCHANGED <<wvars, cvars, hvars, pvars, kvars>>

ReadHeader ==
    /\ \E err \in BOOLEAN : readHeader(err)
    /\ UNCHANGED <<wvars, cvars, hvars, pvars, kvars>>

ParseHeader ==
    /\ \E err \in BOOLEAN : parseHeader(err)
    /\ UNCHANGED <<wvars, cvars, hvars, pvars, kvars>>

CheckHash ==
    /\ \E err \in BOOLEAN : checkHash(err)
    /\ UNCHANGED <<wvars, cvars, hvars, pvars, kvars>>

ReadKey ==
    /\ \E err \in BOOLEAN : readKey(err)
    /\ UNCHANGED <<wvars, cvars, hvars, pvars, kvars>>

CheckKey ==
    /\ \E err \in BOOLEAN : checkKey(err)
    /\ UNCHANGED <<wvars, cvars, hvars, pvars, kvars>>

ReturnData ==
    /\ \E err \in BOOLEAN : returnData(err)
    /\ UNCHANGED <<wvars, cvars, hvars, pvars, kvars>>

\* ------------------------------------------------------------------------
\* Raw data readers and RawDataReaderCacheWrapper
\* ------------------------------------------------------------------------
\* The bytes of the data source behind the memory-backed reader.
Source == <<71, 72, 73, 74, 75>>

\* What a property of a custom reader object can be: not there, a function,
\* another truthy value (1, "x", {}), or a falsy value (0, "", null, false).
PropertyKinds == {"absent", "function", "truthy", "falsy"}

\* The values handed to the constructor as reader.
ReaderArgs ==
    {[kind |-> k, read |-> "absent", open |-> "absent", close |-> "absent"] :
        k \in {"string", "buffer", "null"}}
    \cup [kind : {"object"}, read : PropertyKinds, open : PropertyKinds,
          close : PropertyKinds]

\* new RawDataFileReader(filename): fd is null, open and close are methods.
RawDataFileReader ==
    [kind |-> "RawDataFileReader", read |-> "function", open |-> "function",
     close |-> "function"]

\* new RawDataBufferReader(buffer): only read is a method.
RawDataBufferReader ==
    [kind |-> "RawDataBufferReader", read |-> "function", open |-> "absent",
     close |-> "absent"]

NoReader == [kind |-> "none", read |-> "absent", open |-> "absent", close |-> "absent"]

\* JavaScript truthiness of a property value.
Truthy(p) == p \in {"function", "truthy"}

\* typeof p !== 'function'
NotFunction(p) == p # "function"

\* castToRawDataReader(reader): the reader it returns, or the TypeError.
castToRawDataReader(reader) ==
    IF reader.kind = "string" THEN [threw |-> FALSE, reader |-> RawDataFileReader]
    ELSE IF reader.kind = "buffer" THEN [threw |-> FALSE, reader |-> RawDataBufferReader]
    ELSE IF \/ reader.kind = "null"
            \/ NotFunction(reader.read)
            \/ (Truthy(reader.open) /\ NotFunction(reader.open))
            \/ (Truthy(reader.close) /\ NotFunction(reader.close))
         THEN [threw |-> TRUE, reader |-> NoReader]
    ELSE [threw |-> FALSE, reader |-> reader]

\* Division rounded to the nearest integer instead of floored.
quotient_Rounded(a, b) == (a + (b \div 2)) \div b

\* quotient(a, b): floored division, (a - (a % b)) / b.
quotient(a, b) == (a - (a % b)) \div b

\* buffer.slice(start, end) for 0 <= start: both ends are clamped to the length.
BufferSlice(buffer, start, end) ==
    IF start >= Len(buffer) \/ end <= start THEN <<>>
    ELSE SubSeq(buffer, start + 1, IF end < Len(buffer) THEN end ELSE Len(buffer))

\* RawDataBufferReader.read(start, length)
BufferRead(start, length) == BufferSlice(Source, start, start + length)

RECURSIVE BufferConcat(_)
\* Buffer.concat(buffers)
BufferConcat(buffers) ==
    IF buffers = <<>> THEN <<>> ELSE Head(buffers) \o BufferConcat(Tail(buffers))

\* cache.set(index, block)
MapSet(cache, index, block) ==
    [j \in (DOMAIN cache) \cup {index} |-> IF j = index THEN block ELSE cache[j]]

\* cache.delete(index)
MapDelete(cache, index) == [j \in (DOMAIN cache) \ {index} |-> cache[j]]

\* new Map()
EmptyMap == <<>>

\* this.newCache.size >= this.blocksLimit / 2
RotationDue(size, limit) == size * 2 >= limit

\* The end of readBlock without newCache.set: the block is handed back only.
InsertBlock_Forgets(c, index, block) == c

\* The rotation count of every block read so far, after one more rotation:
\* the blocks of the new generation have gone through one, the others
\* through two or more.
Rotate(c) ==
    [j \in (DOMAIN c.rotated) \cup (DOMAIN c.new) |->
        IF j \in DOMAIN c.new THEN 1 ELSE 2]

\* A rotation that keeps the blocks of the old generation next to those of
\* the new one.
InsertBlock_KeepsOld(c, index, block) ==
    IF RotationDue(Cardinality(DOMAIN c.new), blocksLimit)
    THEN [c EXCEPT !.old = [j \in (DOMAIN c.new) \cup (DOMAIN c.old) |->
                               IF j \in DOMAIN c.new THEN c.new[j] ELSE c.old[j]],
                   !.new = MapSet(EmptyMap, index, block),
                   !.rotated = MapDelete(Rotate(c), index)]
    ELSE [c EXCEPT !.new = MapSet(c.new, index, block),
                   !.rotated = MapDelete(c.rotated, index)]

\* The end of readBlock, once the block is at hand: the rotation test, then
\* newCache.set.  c holds the two maps, the rotation counts and the calls made.
InsertBlock(c, index, block) ==
    IF RotationDue(Cardinality(DOMAIN c.new), blocksLimit)
    THEN [c EXCEPT !.old = c.new,
                   !.new = MapSet(EmptyMap, index, block),
                   !.rotated = MapDelete(Rotate(c), index)]
    ELSE [c EXCEPT !.new = MapSet(c.new, index, block),
                   !.rotated = MapDelete(c.rotated, index)]

\* The record of one readBlock call: where the block came from ("new", "old"
\* or "read" for the underlying reader), how many rotations the index had gone
\* through since its last call, and the block once the call has returned.
BlockCall(index, from, rotations, done, block) ==
    [index |-> index, from |-> from, rotations |-> rotations, done |-> done,
     block |-> block]

\* A readBlock without this.oldCache.delete(index): a block found in the old
\* generation is copied to the new one and stays in the old one.
readBlock_CopiesFromOld(c, index) ==
    LET count == IF index \in DOMAIN c.rotated THEN c.rotated[index] ELSE 0
    IN  IF index \in DOMAIN c.new
        THEN [c EXCEPT !.log = Append(@, BlockCall(index, "new", count, TRUE, c.new[index]))]
        ELSE IF index \in DOMAIN c.old
        THEN LET block == c.old[index]
                 d     == InsertBlock(c, index, block)
             IN  [d EXCEPT !.log = Append(@, BlockCall(index, "old", count, TRUE, block))]
        ELSE [c EXCEPT !.log = Append(@, BlockCall(index, "read", count, FALSE, <<>>))]

\* readBlock(index) up to its first await: a hit in newCache returns, a hit
\* in oldCache promotes and returns, a miss calls this.reader.read and waits.
readBlock(c, index) ==
    LET count == IF index \in DOMAIN c.rotated THEN c.rotated[index] ELSE 0
    IN  IF index \in DOMAIN c.new
        THEN [c EXCEPT !.log = Append(@, BlockCall(index, "new", count, TRUE, c.new[index]))]
        ELSE IF index \in DOMAIN c.old
        THEN LET block == c.old[index]
                 d     == InsertBlock([c EXCEPT !.old = MapDelete(c.old, index)],
                                      index, block)
             IN  [d EXCEPT !.log = Append(@, BlockCall(index, "old", count, TRUE, block))]
        ELSE [c EXCEPT !.log = Append(@, BlockCall(index, "read", count, FALSE, <<>>))]

RECURSIVE readBlocks(_, _, _, _)
\* Array.from({length}, (_empty, index) => this.readBlock(startIndex + index))
readBlocks(c, startIndex, length, index) ==
    IF index >= length THEN c
    ELSE readBlocks(readBlock(c, startIndex + index), startIndex, length, index + 1)

NoRead == [start |-> 0, length |-> 0, repeat |-> FALSE, made |-> FALSE]

NoBuffer == [kind |-> "none", bytes |-> <<>>]

CInit ==
    /\ cpc = "new"
    /\ carg = NoReader
    /\ creader = NoReader
    /\ blockSize = 0
    /\ blocksLimit = 0
    /\ newCache = EmptyMap
    /\ oldCache = EmptyMap
    /\ rotated = EmptyMap
    /\ cop = NoRead
    /\ cblocks = <<>>
    /\ cresult = NoBuffer

\* new RawDataReaderCacheWrapper(reader, {blockSize, blocksLimit}): the cast
\* comes first, so nothing is assigned when it throws.
Construct ==
    /\ cpc = "new"
    /\ \E reader \in ReaderArgs, size \in 1 .. MaxBlockSize, limit \in 0 .. MaxBlocksLimit :
          LET cast == castToRawDataReader(reader)
          IN  /\ carg' = reader
              /\ IF cast.threw
                 THEN /\ cpc' = "threw"
                      /\ UNCHANGED <<creader, blockSize, blocksLimit>>
                 ELSE /\ cpc' = "idle"
                      /\ creader' = cast.reader
                      /\ blockSize' = size
                      /\ blocksLimit' = limit
    /\ UNCHANGED <<newCache, oldCache, rotated, cop, cblocks, cresult>>
    /\ UNCHANGED <<wvars, rvars, hvars, pvars, kvars>>

\* read(start, length) on a wrapper of the memory-backed reader, up to the
\* await of Promise.all: every readBlock call has run to its first await.
read(start, length) ==
    /\ cpc = "idle"
    /\ creader = RawDataBufferReader
    /\ LET startIndex == quotient(start, blockSize)
           end        == start + length
           endIndex   == quotient(end + blockSize - 1, blockSize)
           c == readBlocks([new |-> newCache, old |-> oldCache,
                            rotated |-> rotated, log |-> <<>>],
                           startIndex, endIndex - startIndex, 0)
       IN  /\ newCache' = c.new
           /\ oldCache' = c.old
           /\ rotated' = c.rotated
           /\ cblocks' = c.log
    /\ cop' = [start |-> start, length |-> length, made |-> TRUE,
               repeat |-> cop.made /\ cop.start = start /\ cop.length = length]
    /\ cresult' = NoBuffer
    /\ cpc' = "reading"
    /\ UNCHANGED <<carg, creader, blockSize, blocksLimit>>

Read ==
    /\ \E start \in 0 .. MaxStart, length \in 0 .. MaxLength : read(start, length)
    /\ UNCHANGED <<wvars, rvars, hvars, pvars, kvars>>

\* The rest of a readBlock call that missed: this.reader.read has resolved
\* (the pending calls resolve in any order).
BlockFetched ==
    /\ cpc = "reading"
    /\ \E k \in 1 .. Len(cblocks) :
          /\ ~cblocks[k].done
          /\ LET index == cblocks[k].index
                 block == BufferRead(index * blockSize, blockSize)
                 c == InsertBlock([new |-> newCache, old |-> oldCache,
                                   rotated |-> rotated, log |-> <<>>], index, block)
             IN  /\ newCache' = c.new
                 /\ oldCache' = c.old
                 /\ rotated' = c.rotated
                 /\ cblocks' = [cblocks EXCEPT ![k].done = TRUE, ![k].block = block]
    /\ UNCHANGED <<cpc, carg, creader, blockSize, blocksLimit, cop, cresult>>
    /\ UNCHANGED <<wvars, rvars, hvars, pvars, kvars>>

\* readBlock(index) called on the wrapper while earlier calls may still wait
\* for the underlying reader: the call runs to its first await.
ReadBlock ==
    /\ cpc \in {"idle", "reading"}
    /\ creader = RawDataBufferReader
    /\ ~cop.made
    /\ Len(cblocks) < MaxCalls
    /\ \E index \in 0 .. MaxIndex :
          LET c == readBlock([new |-> newCache, old |-> oldCache,
                              rotated |-> rotated, log |-> cblocks], index)
          IN  /\ newCache' = c.new
              /\ oldCache' = c.old
              /\ rotated' = c.rotated
              /\ cblocks' = c.log
    /\ cpc' = "reading"
    /\ UNCHANGED <<carg, creader, blockSize, blocksLimit, cop, cresult>>
    /\ UNCHANGED <<wvars, rvars, hvars, pvars, kvars>>

\* The end of read: Promise.all has resolved, Buffer.concat(buffers).slice(...).
ReadReturn ==
    /\ cpc = "reading"
    /\ \A k \in 1 .. Len(cblocks) : cblocks[k].done
    /\ LET startIndex == quotient(cop.start, blockSize)
           end        == cop.start + cop.length
           buffers    == [k \in 1 .. Len(cblocks) |-> cblocks[k].block]
       IN  cresult' = [kind |-> "buffer",
                       bytes |-> BufferSlice(BufferConcat(buffers),
                                             cop.start - startIndex * blockSize,
                                             end - startIndex * blockSize)]
    /\ cpc' = "idle"
    /\ UNCHANGED <<carg, creader, blockSize, blocksLimit, newCache, oldCache,
                   rotated, cop, cblocks>>
    /\ UNCHANGED <<wvars, rvars, hvars, pvars, kvars>>

\* ------------------------------------------------------------------------
\* The hash functions on their own
\* ------------------------------------------------------------------------
\* Bytes a key buffer is made of.
HashBytes == {0, 1, 97, 255}

\* UTF-16 code units a key string is made of.
HashUnits == HashBytes \cup {8364}

\* All sequences over S of length 0 .. n.
SeqUpTo(S, n) == UNION {[1 .. m -> S] : m \in 0 .. n}

\* The functions and the keys they are called with: cdbHash takes a string,
\* originalHash and defaultHash take a Buffer.
HashFunctions == {"cdbHash", "originalHash", "defaultHash"}

HashInputs(fn) ==
    IF fn = "cdbHash" THEN SeqUpTo(HashUnits, MaxKeyLen) \cup Keys
    ELSE SeqUpTo(HashBytes, MaxKeyLen)

\* One iteration of the loop: ((((hash << 5) >>> 0) + hash) ^ unit) >>> 0
hashStep(h, unit) == XorUnit(Add32(Shl5(h), h), unit)

\* BigInt(hash): a BigInt is held as its 16-bit limbs, lowest first.
BigInt(h) == <<h[2], h[1]>>

\* n << 32n
ShiftLeft32(n) == <<0, 0>> \o n

RECURSIVE BigAdd(_, _, _)
\* a + b on BigInts (unbounded: a carry out of the top limb adds a limb).
BigAdd(a, b, carry) ==
    IF a = <<>> /\ b = <<>> THEN (IF carry = 0 THEN <<>> ELSE <<carry>>)
    ELSE LET x == IF a = <<>> THEN 0 ELSE Head(a)
             y == IF b = <<>> THEN 0 ELSE Head(b)
             sum == x + y + carry
         IN  <<sum % Half>> \o BigAdd(IF a = <<>> THEN a ELSE Tail(a),
                                      IF b = <<>> THEN b ELSE Tail(b),
                                      sum \div Half)

\* paddedKey of defaultHash: the key, or Buffer.alloc(4) with the key copied
\* to its start when the key is shorter than 4 bytes.
PaddedKey(key) ==
    IF Len(key) < 4 THEN [j \in 1 .. 4 |-> IF j <= Len(key) THEN key[j] ELSE 0]
    ELSE key

\* buffer.readUInt32BE(0)
readUInt32BE(buffer) ==
    <<(buffer[1] * 256) + buffer[2], (buffer[3] * 256) + buffer[4]>>

\* buffer.readUInt32LE(0)
readUInt32LE(buffer) ==
    <<(buffer[4] * 256) + buffer[3], (buffer[2] * 256) + buffer[1]>>

\* originalHash(key) + (BigInt(paddedKey.readUInt32LE(0)) << 32n)
defaultHash(key, original) ==
    BigAdd(original, ShiftLeft32(BigInt(readUInt32LE(PaddedKey(key)))), 0)

NoHash == <<>>

HInit ==
    /\ hpc = "new"
    /\ hfn = "none"
    /\ hkey = <<>>
    /\ hi = 0
    /\ hhash = ZeroHash
    /\ hresult = NoHash

\* A hash function is called: hash = 5381, i = 0 (defaultHash calls
\* originalHash(key) first).
HashCall ==
    /\ hpc = "new"
    /\ \E fn \in HashFunctions :
          \E key \in HashInputs(fn) :
              /\ hfn' = fn
              /\ hkey' = key
    /\ hi' = 0
    /\ hhash' = <<0, 5381>>
    /\ hpc' = "looping"
    /\ UNCHANGED hresult
    /\ UNCHANGED <<wvars, rvars, cvars, pvars, kvars>>

\* One iteration of the for loop.
HashLoop ==
    /\ hpc = "looping"
    /\ hi < Len(hkey)
    /\ hhash' = hashStep(hhash, hkey[hi + 1])
    /\ hi' = hi + 1
    /\ UNCHANGED <<hpc, hfn, hkey, hresult>>
    /\ UNCHANGED <<wvars, rvars, cvars, pvars, kvars>>

\* The loop is over: return hash, BigInt(hash), or the sum of defaultHash.
HashReturn ==
    /\ hpc = "looping"
    /\ hi >= Len(hkey)
    /\ hresult' = IF hfn = "defaultHash" THEN defaultHash(hkey, BigInt(hhash))
                  ELSE BigInt(hhash)
    /\ hpc' = "returned"
    /\ UNCHANGED <<hfn, hkey, hi, hhash>>
    /\ UNCHANGED <<wvars, rvars, cvars, pvars, kvars>>

\* ------------------------------------------------------------------------
\* Two gets in flight on one reader
\* ------------------------------------------------------------------------
\* The closure of a get (its variables and its callback) that is not the one
\* running: none before a second get is issued.
NoOther == [used |-> FALSE, rpc |-> "idle", env |-> NoEnv, op |-> [key |-> <<>>, name |-> "none", occurrence |-> 0],
            reads |-> 0, calls |-> 0, result |-> NoResult]

PInit == other = NoOther

\* The closure variables of the get that is running now.
Running ==
    [used |-> TRUE, rpc |-> rpc, env |-> env, op |-> op, reads |-> reads,
     calls |-> calls, result |-> result]

\* The reader's states in which a get waits for the completion of a read.
ReadPending == {"checkHash", "readKey", "checkKey", "returnData"}

\* get(key, callback) called while the get issued before waits for a read:
\* the earlier get's closure stays behind with its read in flight.
GetSecond ==
    /\ ~other.used
    /\ op.name = "get"
    /\ rpc \in ReadPending
    /\ Len(puts) <= MaxPairPuts
    /\ other' = Running
    /\ \E key \in Keys : StartGet(key, 0)
    /\ UNCHANGED <<wvars, cvars, hvars, kvars>>

\* The read of the other get completes next: its callback runs with its own
\* closure variables.
Switch ==
    /\ other.used
    /\ other.rpc \in ReadPending
    /\ other' = Running
    /\ rpc' = other.rpc
    /\ env' = other.env
    /\ op' = other.op
    /\ reads' = other.reads
    /\ calls' = other.calls
    /\ result' = other.result
    /\ UNCHANGED <<rheader, bookmark, chain>>
    /\ UNCHANGED <<wvars, cvars, hvars, kvars>>

\* ------------------------------------------------------------------------
\* The fixed-width codecs on their own
\* ------------------------------------------------------------------------
\* An integer below 2^64 is held as four 16-bit limbs, lowest first; a double
\* that has been rounded up to 2^64 has a fifth limb.
Codecs == {"uInt32LE", "uInt64LE", "uInt64LEBigInt"}

\* The size field of a codec.
CodecSize(codec) == IF codec = "uInt32LE" THEN 4 ELSE 8

\* Values handed to write: 0, 1, 0x04030201, 2^32 - 1, 2^32, 2^53, 2^53 + 1,
\* 0x0807060504030200, 0x0807060504030201 and 2^64 - 1.
CodecValues ==
    {<<0, 0, 0, 0>>, <<1, 0, 0, 0>>, <<513, 1027, 0, 0>>, <<65535, 65535, 0, 0>>,
     <<0, 0, 1, 0>>, <<0, 0, 0, 32>>, <<1, 0, 0, 32>>, <<512, 1027, 1541, 2055>>,
     <<513, 1027, 1541, 2055>>, <<65535, 65535, 65535, 65535>>}

\* The values in the range of a codec: below 2^32, or below 2^64.
ValuesOf(codec) ==
    IF codec = "uInt32LE" THEN {v \in CodecValues : v[3] = 0 /\ v[4] = 0}
    ELSE CodecValues

\* Bytes a buffer is filled with before the write.
FillBytes == {0, 255}

Pow2(k) == 2 ^ k

\* Number of binary digits of x (0 for 0).
BitLength(x) == CHOOSE k \in 0 .. 16 : (x = 0 /\ k = 0) \/ (k > 0 /\ Pow2(k - 1) <= x /\ x < Pow2(k))

\* The double nearest to the integer n, ties to even: a double has 53
\* significant bits, so of an integer of 53 + d bits the lowest d are rounded
\* away (d <= 11: they are all in the lowest limb).
ToDouble(n) ==
    LET d    == BitLength(n[4]) - 5
        rem  == n[1] % Pow2(d)
        down == [n EXCEPT ![1] = @ - rem]
        odd  == (n[1] \div Pow2(d)) % 2 = 1
    IN  IF d <= 0 THEN n
        ELSE IF (2 * rem > Pow2(d)) \/ (2 * rem = Pow2(d) /\ odd)
        THEN BigAdd(down, <<Pow2(d), 0, 0, 0>>, 0)
        ELSE down

\* The argument write receives for the integer v: a number parameter holds
\* the nearest double, a bigint parameter holds v.
Argument(codec, v) == IF codec = "uInt64LEBigInt" THEN v ELSE ToDouble(v)

\* Number(n) for a BigInt n below 2^64.
Number(n) == ToDouble(n)

\* n & 0xFFFFFFFFn and n >> 32n, as the numbers handed to writeUInt32LE.
LowWord(n) == <<n[1], n[2]>>

HighWord(n) == SubSeq(n, 3, Len(n))

\* The bytes a..b (0-based, b excluded) of a buffer.
BytesAt(buffer, a, b) == SubSeq(buffer, a + 1, b)

\* buffer.writeUInt32BE(value, offset)
writeUInt32LE_BigEndian(buffer, value, offset) ==
    IF Len(value) > 2 \/ offset + 4 > Len(buffer)
    THEN [threw |-> TRUE, buffer |-> buffer]
    ELSE [threw |-> FALSE,
          buffer |-> [j \in 1 .. Len(buffer) |->
                         IF j = offset + 4 THEN value[1] % 256
                         ELSE IF j = offset + 3 THEN value[1] \div 256
                         ELSE IF j = offset + 2 THEN value[2] % 256
                         ELSE IF j = offset + 1 THEN value[2] \div 256
                         ELSE buffer[j]]]

\* buffer.writeUInt32LE(value, offset): a RangeError, and no byte written,
\* when value is above 2^32 - 1 or offset + 4 is beyond the buffer.
writeUInt32LE(buffer, value, offset) ==
    IF Len(value) > 2 \/ offset + 4 > Len(buffer)
    THEN [threw |-> TRUE, buffer |-> buffer]
    ELSE [threw |-> FALSE,
          buffer |-> [j \in 1 .. Len(buffer) |->
                         IF j = offset + 1 THEN value[1] % 256
                         ELSE IF j = offset + 2 THEN value[1] \div 256
                         ELSE IF j = offset + 3 THEN value[2] % 256
                         ELSE IF j = offset + 4 THEN value[2] \div 256
                         ELSE buffer[j]]]

\* buffer.readUInt32LE(offset): a RangeError when offset + 4 is beyond the
\* buffer.
readUInt32LEAt(buffer, offset) ==
    IF offset + 4 > Len(buffer) THEN [threw |-> TRUE, value |-> ZeroHash]
    ELSE [threw |-> FALSE, value |-> readUInt32LE(BytesAt(buffer, offset, offset + 4))]

\* uInt32LE.write(buffer, value, offset): a number below 2^32 is its two low
\* limbs.
uInt32LE_write(buffer, value, offset) ==
    writeUInt32LE(buffer, IF HighWord(value) = <<0, 0>> THEN LowWord(value) ELSE value,
                  offset)

\* uInt64LE.write and uInt64LEBigInt.write: the low word at offset, then the
\* high word at offset + 4; a RangeError of the second call leaves the first
\* word written.
uInt64LE_write(buffer, value, offset) ==
    LET low == writeUInt32LE(buffer, LowWord(value), offset)
    IN  IF low.threw THEN low
        ELSE writeUInt32LE(low.buffer, HighWord(value), offset + 4)

\* codec.write(buffer, value, offset) for the integer v.
CodecWriteOf(codec, buffer, v, offset) ==
    IF codec = "uInt32LE" THEN uInt32LE_write(buffer, Argument(codec, v), offset)
    ELSE uInt64LE_write(buffer, Argument(codec, v), offset)

\* BigInt(buffer.readUInt32LE(offset)) + (BigInt(buffer.readUInt32LE(offset + 4)) << 32n)
uInt64LEBigInt_read(buffer, offset) ==
    LET low  == readUInt32LEAt(buffer, offset)
        high == readUInt32LEAt(buffer, offset + 4)
    IN  IF low.threw \/ high.threw THEN [threw |-> TRUE, value |-> <<>>]
        ELSE [threw |-> FALSE,
              value |-> BigAdd(BigInt(low.value), ShiftLeft32(BigInt(high.value)), 0)]

\* uInt64LE.read: Number(...) of the same sum.
uInt64LE_read(buffer, offset) ==
    LET big == uInt64LEBigInt_read(buffer, offset)
    IN  IF big.threw THEN big ELSE [threw |-> FALSE, value |-> Number(big.value)]

\* uInt32LE.read(buffer, offset)
uInt32LE_read(buffer, offset) ==
    LET word == readUInt32LEAt(buffer, offset)
    IN  IF word.threw THEN [threw |-> TRUE, value |-> <<>>]
        ELSE [threw |-> FALSE, value |-> BigInt(word.value) \o <<0, 0>>]

\* codec.read(buffer, offset)
CodecReadOf(codec, buffer, offset) ==
    IF codec = "uInt32LE" THEN uInt32LE_read(buffer, offset)
    ELSE IF codec = "uInt64LE" THEN uInt64LE_read(buffer, offset)
    ELSE uInt64LEBigInt_read(buffer, offset)

NoValue == <<>>

KInit ==
    /\ kpc = "new"
    /\ kcodec = "none"
    /\ kbuffer = <<>>
    /\ koffset = 0
    /\ kvalue = NoValue
    /\ kafter = <<>>
    /\ kread = NoValue

\* codec.write(buffer, value, offset) on a buffer of up to MaxBufferLength
\* bytes, at an offset inside the buffer or just past its end.
CodecWrite ==
    /\ kpc = "new"
    /\ \E codec \in Codecs, length \in 0 .. MaxBufferLength, fill \in FillBytes :
          \E offset \in 0 .. length, v \in ValuesOf(codec) :
             LET buffer  == [j \in 1 .. length |-> fill]
                 written == CodecWriteOf(codec, buffer, v, offset)
             IN  /\ kcodec' = codec
                 /\ kbuffer' = buffer
                 /\ koffset' = offset
                 /\ kvalue' = v
                 /\ kafter' = written.buffer
                 /\ kpc' = IF written.threw THEN "threw" ELSE "written"
    /\ UNCHANGED kread
    /\ UNCHANGED <<wvars, rvars, cvars, hvars, pvars>>

\* codec.read(buffer, offset) on the buffer written, at the same offset.
CodecRead ==
    /\ kpc = "written"
    /\ LET got == CodecReadOf(kcodec, kafter, koffset)
       IN  /\ kread' = got.value
           /\ kpc' = IF got.threw THEN "threw" ELSE "read"
    /\ UNCHANGED <<kcodec, kbuffer, koffset, kvalue, kafter>>
    /\ UNCHANGED <<wvars, rvars, cvars, hvars, pvars>>

\* The codecs on their own.
CodecNext ==
    \/ CodecWrite
    \/ CodecRead

Init == WInit /\ RInit /\ CInit /\ HInit /\ PInit /\ KInit

\* The hash functions on their own.
HashNext ==
    \/ HashCall
    \/ HashLoop
    \/ HashReturn

HashSpec == Init /\ [][HashNext]_vars

CodecSpec == Init /\ [][CodecNext]_vars

\* The cache wrapper on its own.
CacheNext ==
    \/ Construct
    \/ Read
    \/ BlockFetched
    \/ ReadReturn

CacheSpec == Init /\ [][CacheNext]_vars

\* The cache wrapper under readBlock calls that do not wait for each other.
RaceNext ==
    \/ Construct
    \/ ReadBlock
    \/ BlockFetched

RaceSpec == Init /\ [][RaceNext]_vars

\* A reader on which a second get is issued while the first is in flight.
PairNext ==
    \/ WOpen
    \/ FileOpened
    \/ Put
    \/ Close
    \/ OpenStreamForHashtable
    \/ WriteHashtables
    \/ WriteHeader
    \/ Finished
    \/ ROpen
    \/ ReadHeader
    \/ ParseHeader
    \/ Get
    \/ GetSecond
    \/ Switch
    \/ CheckHash
    \/ ReadKey
    \/ CheckKey
    \/ ReturnData

PairSpec == Init /\ [][PairNext]_vars

Next ==
    \/ WOpen
    \/ FileOpened
    \/ OpenError
    \/ Put
    \/ RecordStreamError
    \/ Close
    \/ CloseAgain
    \/ OpenStreamForHashtable
    \/ HashtableOpenError
    \/ WriteHashtables
    \/ HashtableWriteError
    \/ WriteHeader
    \/ Finished
    \/ ROpen
    \/ ReadHeader
    \/ ParseHeader
    \/ Get
    \/ CheckHash
    \/ ReadKey
    \/ CheckKey
    \/ ReturnData
    \/ GetNextBookmark
    \/ GetNextNoBookmark
    \/ RClose

Spec == Init /\ [][Next]_vars

\* The callbacks Node's event loop runs once their I/O has completed: a
\* pending callback is eventually invoked.  Calls made by the user of the
\* library (put, close, get, getNext) carry no such guarantee.
WriterCallbacks ==
    \/ FileOpened
    \/ OpenStreamForHashtable
    \/ WriteHashtables
    \/ WriteHeader
    \/ Finished

ReaderCallbacks ==
    \/ ReadHeader
    \/ ParseHeader
    \/ CheckHash
    \/ ReadKey
    \/ CheckKey
    \/ ReturnData

LiveSpec ==
    /\ Init
    /\ [][Next]_vars
    /\ WF_vars(WriterCallbacks)
    /\ WF_vars(ReaderCallbacks)

\* ------------------------------------------------------------------------
\* Vocabulary of the properties
\* ------------------------------------------------------------------------
\* The puts of key, in put order.
PutsOf(key) == SelectSeq(puts, LAMBDA p : p[1] = key)

\* How many times key was put.
Count(key) == Len(PutsOf(key))

\* What a reader must deliver for occurrence i (from 0) of key.
Expected(key, i) == Data(Utf8Encode(PutsOf(key)[i + 1][2]))

\* The writer went through open, its puts and close without any I/O error.
CleanFile == wpc = "finished" /\ ioError = "none"

\* A read callback of the reader is pending.
Probing == rpc \in {"checkHash", "readKey", "checkKey", "returnData"}

\* A get has delivered a result other than an I/O error.
GetAnswered ==
    /\ ~Probing
    /\ op.name = "get"
    /\ calls = 1
    /\ result.kind # "error"

\* A getNext of an enumeration started by get(key, 0) has delivered a result,
\* no operation of the enumeration having met an I/O error.
NextAnswered ==
    /\ ~Probing
    /\ op.name = "getNext"
    /\ calls = 1
    /\ chain.clean
    /\ chain.occurrence = 0

\* ------------------------------------------------------------------------
\* Properties
\* ------------------------------------------------------------------------
\* C1: after put* and a close without I/O error, get(key, 0) answers with the
\* data of the first put of key, for every key that was put.
C1_FirstPutWins ==
    (CleanFile /\ GetAnswered /\ op.occurrence = 0 /\ Count(op.key) > 0)
        => result = Expected(op.key, 0)

\* C2: get(key, i) with i below the number of puts of key answers with the
\* data of the (i+1)-th put of key, whatever other keys were written (stated
\* here for keys whose hash is not 0).
C2_OccurrenceSelectsPut ==
    (CleanFile /\ GetAnswered /\ op.occurrence < Count(op.key)
               /\ HashOf[op.key] # ZeroHash)
        => result = Expected(op.key, op.occurrence)

\* C3: after get(key, 0) on a key put k times, the j-th getNext answers with
\* the data of the (j+1)-th put for j < k, and the k-th getNext with not-found.
C3_EnumerationInPutOrder ==
    (CleanFile /\ NextAnswered /\ chain.nexts <= Count(chain.key))
        => result = IF chain.nexts < Count(chain.key)
                    THEN Expected(chain.key, chain.nexts)
                    ELSE NotFound

\* C4: once the k values of a key have been enumerated by get(key, 0) and
\* getNext, every further getNext answers not-found (stated here for keys
\* whose hash is not 0).
C4_ExhaustedStaysNotFound ==
    (CleanFile /\ NextAnswered /\ chain.nexts >= Count(chain.key)
               /\ HashOf[chain.key] # ZeroHash)
        => result = NotFound

\* C5: a get of a key that was never put completes, and completes with
\* not-found, unless a read fails.
C5_AbsentKeyNotFound ==
    (CleanFile /\ op.name = "get" /\ Count(op.key) = 0 /\ Probing)
        ~> (rpc = "idle" /\ result \in {NotFound, IOError})

\* C6: every get and getNext terminates: its probe reaches a result and the
\* callback is invoked exactly once.
C6_ProbeTerminates == (CleanFile /\ Probing) ~> (rpc = "idle" /\ calls = 1)

\* C7: getNext without a bookmark performs no read and its callback receives
\* not-found.  When no read is pending no callback can still be on its way.
C7_NextWithoutBookmark ==
    (op.name = "getNext" /\ ~bookmark.live /\ ~Probing)
        => (reads = 0 /\ calls = 1 /\ result = NotFound)

\* C8: when the header entry of the key's bucket has slotCount 0, get answers
\* not-found at once and issues no read.
C8_EmptyBucketNoRead ==
    (op.name = "get" /\ rheader[Low8(HashOf[op.key])].slotCount = 0)
        => (reads = 0 /\ ~Probing /\ calls = 1 /\ result = NotFound)

\* A get on a file that holds records has hit a bucket without entries.
C8_Witness ==
    /\ CleanFile
    /\ puts # <<>>
    /\ op.name = "get"
    /\ rheader[Low8(HashOf[op.key])].slotCount = 0
    /\ result = NotFound

\* C9: once an I/O error has occurred on the writer, a put changes no bucket
\* list, no file position and nothing in the file.
C9_ErroredPutIsInert ==
    [][(ioError # "none" /\ nputs' = nputs + 1)
          => (hashtables' = hashtables /\ filePosition' = filePosition /\ file' = file)]_vars

\* C10: when close has settled after an I/O error in one of its phases, its
\* callback has received the error and no 'finish' event was emitted.
C10_CloseErrorDelivered ==
    (wpc \in {"finished", "closeFailed"}
        /\ ioError \in {"hashtableOpen", "hashtableWrite", "header"})
        => (closeCb = "err" /\ "finish" \notin events)

\* C11: close runs its phases in a fixed order.  The hashtable sink exists
\* only once the data sink has finished; when the hashtable sink has been
\* ended all 256 header entries are recorded, every bucket list is freed and
\* the bytes of all slot tables were handed to the sink; the header region of
\* the file is written only after that; 'finish' and close's callback come
\* last, after the header write (which then, unless it failed, is in the file).
C11_ClosePhasesInOrder ==
    /\ (wpc \in {"hashtableOpening", "hashtableEnding", "headerWriting", "finished"})
          => recordStream = "finished"
    /\ (wpc \in {"hashtableEnding", "headerWriting", "finished"})
          => /\ DOMAIN header = 0 .. (TABLE_SIZE - 1)
             /\ hashtables = <<>>
             /\ Len(file.tables) * 8 = filePosition - file.tableStart
    /\ (file.header # ZeroHeader) => wpc = "finished"
    /\ ("finish" \in events \/ closeCb = "ok")
          => /\ wpc = "finished"
             /\ ioError = "none" => file.header # ZeroHeader

\* A close of a file with records has gone through all its phases.
C11_Witness ==
    /\ wpc = "finished"
    /\ ioError = "none"
    /\ puts # <<>>
    /\ "finish" \in events
    /\ closeCb = "ok"
    /\ file.header = getBufferForHeader(header)

\* Number of puts whose key falls into a bucket of the set B.
PutsInBuckets(B) ==
    Cardinality({k \in 1 .. Len(puts) : Low8(HashOf[puts[k][1]]) \in B})

RECURSIVE DataRegionLength(_)
\* Total length 8 + keyLength + dataLength of the first k records put.
DataRegionLength(k) ==
    IF k = 0 THEN 0
    ELSE DataRegionLength(k - 1) + 8 + byteLength(puts[k][1]) + byteLength(puts[k][2])

\* Where the slot table of bucket i must start.
TablePosition(i) ==
    HEADER_SIZE + DataRegionLength(Len(puts)) + (2 * PutsInBuckets(0 .. (i - 1)) * 8)

\* The reader has decoded the header.
HeaderParsed == rpc \notin {"closed", "opening", "headerReading", "openFailed"}

\* The layout of the header and of the slot tables, in the file and as the
\* reader holds it once it has decoded the header.
HeaderLayout ==
    LET base == HEADER_SIZE + DataRegionLength(Len(puts))
    IN  /\ \A i \in 0 .. (TABLE_SIZE - 1) :
              /\ file.header[i].slots = 2 * PutsInBuckets({i})
              /\ file.header[i].position = base + (2 * PutsInBuckets(0 .. (i - 1)) * 8)
        /\ file.tableStart = base
        /\ Len(file.tables) = 2 * Len(puts)
        /\ HeaderParsed =>
              \A i \in 0 .. (TABLE_SIZE - 1) :
                  rheader[i] = [position  |-> base + (2 * PutsInBuckets(0 .. (i - 1)) * 8),
                                slotCount |-> 2 * PutsInBuckets({i})]

TablesWritten == wpc \in {"hashtableEnding", "headerWriting", "finished"}

\* The slots of the written tables that hold an entry (position field not 0).
OccupiedSlots == {j \in 1 .. Len(file.tables) : file.tables[j].position # 0}

\* C13: the hashtable builder overwrites no entry it has placed: the tables
\* built from n entries have 2n slots, exactly n of them occupied, and every
\* entry (hash of the key, position of its record) is in one of them, for
\* every hash value, 0 included.
C13_BuilderKeepsEveryEntry ==
    TablesWritten =>
        /\ Len(file.tables) = 2 * Len(puts)
        /\ Cardinality(OccupiedSlots) = Len(puts)
        /\ \A k \in 1 .. Len(puts) :
              \E j \in OccupiedSlots :
                  file.tables[j] = [hash     |-> HashOf[puts[k][1]],
                                    position |-> RecordOffset(file.data, k)]

\* The bucket lists as the puts left them (close has not freed them yet).
ListsIntact == wpc \in {"open", "ending", "hashtableOpening"}

\* The position put handed out for the k-th record: the position field of
\* the entry it pushed, which is the n-th of its bucket list when n of the
\* first k puts fell into that bucket.
PositionOfPut(k) ==
    LET b == Low8(HashOf[puts[k][1]])
        n == Cardinality({m \in 1 .. k : Low8(HashOf[puts[m][1]]) = b})
    IN  hashtables[b][n].position

\* C14: every record position handed out by put on an opened writer is at
\* least HEADER_SIZE, positions grow strictly in put order, and the k-th
\* position is HEADER_SIZE plus the length of the k-1 records before it.
C14_PositionsSequential ==
    ListsIntact =>
        \A k \in 1 .. Len(puts) :
            /\ PositionOfPut(k) >= HEADER_SIZE
            /\ PositionOfPut(k) = HEADER_SIZE + DataRegionLength(k - 1)
            /\ \A m \in 1 .. (k - 1) : PositionOfPut(m) < PositionOfPut(k)

\* Three records were put, two of them into bucket 0.
C14_Witness ==
    /\ wpc = "open"
    /\ Len(puts) = 3
    /\ PutsInBuckets({0}) = 2
    /\ PositionOfPut(3) > PositionOfPut(2)
    /\ PositionOfPut(1) = HEADER_SIZE

\* The list of bucket b, empty when no entry was pushed to it yet.
ListOf(tables, b) == IF b \in DOMAIN tables THEN tables[b] ELSE <<>>

\* C15: a put on an open writer, whatever the sink's write returns and
\* whether or not the sink has drained since the put before, appends exactly
\* one entry (hash of the key, file position before the call) to the list of
\* bucket hash & 255, leaves every other list as it is and advances the file
\* position by 8 + keyLength + dataLength.
C15_BookkeepingSynchronous ==
    [][(wpc = "open" /\ nputs' = nputs + 1) =>
          LET key  == puts'[Len(puts')][1]
              data == puts'[Len(puts')][2]
              b    == Low8(HashOf[key])
          IN  /\ Len(puts') = Len(puts) + 1
              /\ ListOf(hashtables', b) =
                    Append(ListOf(hashtables, b),
                           [hash |-> HashOf[key], position |-> filePosition])
              /\ \A j \in (0 .. (TABLE_SIZE - 1)) \ {b} :
                    ListOf(hashtables', j) = ListOf(hashtables, j)
              /\ filePosition' = filePosition + 8 + byteLength(key) + byteLength(data)]_vars

\* A second record was put, the sink having answered false to it, and its entry is in its list.
C15_Witness ==
    /\ wpc = "open"
    /\ Len(puts) = 2
    /\ lastPut = [outcome |-> "written", okayToWrite |-> FALSE]
    /\ PositionOfPut(2) = filePosition - (8 + byteLength(puts[2][1]) + byteLength(puts[2][2]))


\* ------------------------------------------------------------------------
\* Claims about the cache wrapper
\* ------------------------------------------------------------------------
\* A read(start, length) has been issued and has returned.
ReadReturned == cpc = "idle" /\ cop.made

\* A read(start, length) has been issued (its readBlock calls have been made).
ReadIssued == cpc = "reading" \/ ReadReturned

\* The bytes of the source at offsets start .. start + length - 1, as far as
\* the source goes.
SourceBytes(start, length) ==
    LET available == IF start >= Len(Source) THEN 0 ELSE Len(Source) - start
        n == IF length < available THEN length ELSE available
    IN  [i \in 1 .. n |-> Source[start + i]]

\* floor(a / b) and ceil(a / b) for a >= 0, b > 0.
FloorDiv(a, b) == a \div b

CeilDiv(a, b) == IF a % b = 0 THEN a \div b ELSE (a \div b) + 1

\* The block indices first .. last in ascending order.
IndexRange(first, last) ==
    IF last < first THEN <<>> ELSE [k \in 1 .. (last - first + 1) |-> first + k - 1]

\* C16: read(start, length) calls readBlock for exactly the blocks
\* floor(start / blockSize) .. ceil((start + length) / blockSize) - 1, whatever
\* the two generations hold, and, in whatever order the underlying reads it
\* started complete, returns exactly the source bytes [start, start + length).
C16_ReadReturnsSourceBytes ==
    /\ ReadIssued =>
          [k \in 1 .. Len(cblocks) |-> cblocks[k].index]
              = IndexRange(FloorDiv(cop.start, blockSize),
                           CeilDiv(cop.start + cop.length, blockSize) - 1)
    /\ ReadReturned =>
          cresult = [kind |-> "buffer", bytes |-> SourceBytes(cop.start, cop.length)]

\* A read that starts inside a block and spans two blocks, which came from
\* two different places (the generations or the source), has returned its
\* three bytes.
C16_Witness ==
    /\ ReadReturned
    /\ blockSize = 2
    /\ cop.start = 1
    /\ cop.length = 3
    /\ Len(cblocks) = 2
    /\ cblocks[1].from # cblocks[2].from
    /\ cresult.bytes = <<72, 73, 74>>

\* The read in progress (or the last one) repeats the read before it: the
\* same start and length, with no other read in between.
ReadRepeated == ReadIssued /\ cop.repeat

\* No readBlock call of the read went to the underlying reader.
ServedFromCache == \A k \in 1 .. Len(cblocks) : cblocks[k].from # "read"

BetweenReadBlockCalls == cpc \in {"idle", "reading"}

\* C18: between readBlock calls the new generation holds strictly fewer than
\* blocksLimit / 2 blocks, because the call whose insertion makes it reach
\* blocksLimit / 2 rotates the generations before it returns (stated for a
\* positive blocksLimit, under which an empty new generation satisfies it).
C18_NewGenerationBelowHalf ==
    (BetweenReadBlockCalls /\ blocksLimit > 0)
        => Cardinality(DOMAIN newCache) * 2 < blocksLimit

\* The readBlock calls of the read in progress (or of the last one) whose
\* block had been read before and had gone through n rotations since.
CallsAfterRotations(n) == {k \in 1 .. Len(cblocks) : cblocks[k].rotations = n}

\* C19 as stated: once the generations have rotated, the next access to a
\* block read before the rotation and not touched since goes to the
\* underlying source.
C19_FreshReadAfterRotation ==
    ReadIssued => \A k \in CallsAfterRotations(1) : cblocks[k].from = "read"

\* C19 amended: once the generations have rotated twice, the next access to
\* a block read before the first of these rotations and not touched since
\* goes to the underlying source.
C19_FreshReadAfterTwoRotations ==
    ReadIssued => \A k \in CallsAfterRotations(2) : cblocks[k].from = "read"

\* A read has returned whose block had been rotated out twice and was
\* fetched from the source again.
C19_Witness ==
    /\ ReadReturned
    /\ \E k \in CallsAfterRotations(2) :
          /\ cblocks[k].from = "read"
          /\ cblocks[k].block = BufferRead(cblocks[k].index * blockSize, blockSize)

\* The constructor has run: it returned a wrapper or threw.
Constructed == cpc # "new"

\* A custom reader object the raw-data access layer must refuse: it has no
\* callable read, or an open or close that is there but is not a function.
InvalidReader(reader) ==
    \/ reader.kind = "null"
    \/ reader.read # "function"
    \/ reader.open \notin {"absent", "function"}
    \/ reader.close \notin {"absent", "function"}

\* C20: the constructor throws the usage error, before any read, exactly for
\* the custom objects without a callable read or with a present non-function
\* open or close (falsy values such as 0 and "" included); a string gives a
\* file-backed reader, a buffer a memory-backed reader, and a valid custom
\* object is kept as it is.
C20_InvalidReaderRefused ==
    Constructed =>
        /\ (carg.kind = "string") => (cpc # "threw" /\ creader = RawDataFileReader)
        /\ (carg.kind = "buffer") => (cpc # "threw" /\ creader = RawDataBufferReader)
        /\ (carg.kind \in {"object", "null"}) =>
              IF InvalidReader(carg)
              THEN cpc = "threw" /\ creader = NoReader /\ ~cop.made
              ELSE cpc # "threw" /\ creader = carg

\* ------------------------------------------------------------------------
\* Claims about the reader's open and probe, the hashes and the builder
\* ------------------------------------------------------------------------
\* bytesRead of the header read, fs.read(fd, buffer, 0, HEADER_SIZE, 0, ...):
\* nothing when no byte of the file was ever written, HEADER_SIZE otherwise
\* (the data sink starts at HEADER_SIZE, so any record or table leaves the
\* header region in the file, zero-filled until the header is written).
HeaderBytesRead(f) ==
    IF f.data = <<>> /\ f.tables = <<>> /\ f.header = ZeroHeader THEN 0 ELSE HEADER_SIZE

\* C21: open fails with an error when the file cannot be opened or the header
\* read returns fewer than HEADER_SIZE bytes; it hands out the reader, with
\* 256 decoded header entries, only after a full-length header read.
C21_OpenNeedsFullHeader ==
    /\ (rpc = "openFailed") => result = IOError
    /\ HeaderParsed =>
          /\ HeaderBytesRead(file) = HEADER_SIZE
          /\ DOMAIN rheader = 0 .. (TABLE_SIZE - 1)

\* (acc * 33) mod 2^32 on a 32-bit value held as two 16-bit halves.
Times33(acc) ==
    LET low == acc[2] * 33
    IN  <<((acc[1] * 33) + (low \div Half)) % Half, low % Half>>

RECURSIVE Fold33(_, _)
\* acc_0 = 5381, acc_{i+1} = ((acc_i * 33) mod 2^32) XOR unit_i, after n units.
Fold33(key, n) ==
    IF n = 0 THEN <<0, 5381>>
    ELSE LET acc == Times33(Fold33(key, n - 1))
         IN  <<acc[1], Xor(acc[2], key[n])>>

\* A value of 0 .. 2^32 - 1, as two halves.
InRange32(h) == h[1] \in 0 .. (Half - 1) /\ h[2] \in 0 .. (Half - 1)

\* C22: at every iteration and at its return the 32-bit hash is the fold
\* acc_0 = 5381, acc_{i+1} = ((acc_i * 33) mod 2^32) XOR unit_i of the units
\* hashed so far and lies in 0 .. 2^32 - 1; what cdbHash returns for a key is
\* the hash put and get use for it, so both take the bucket hash & 255 and
\* the home slot (hash >>> 8) % slotCount from the same value.
C22_HashIsFold33 ==
    /\ (hpc # "new") => (hhash = Fold33(hkey, hi) /\ InRange32(hhash))
    /\ (hpc = "returned" /\ hfn = "cdbHash") =>
          /\ hresult = BigInt(cdbHash(hkey))
          /\ hkey \in Keys =>
                /\ HashOf[hkey] = Fold33(hkey, Len(hkey))
                /\ Low8(HashOf[hkey]) = Fold33(hkey, Len(hkey))[2] % 256
                /\ Shr8(HashOf[hkey])
                      = (Fold33(hkey, Len(hkey))[1] * 256)
                            + (Fold33(hkey, Len(hkey))[2] \div 256)

\* cdbHash has returned for "vpbzfti", whose seven multiplications by 33
\* leave the 32-bit range several times and whose hash is 0.
C22_Witness ==
    /\ hpc = "returned"
    /\ hfn = "cdbHash"
    /\ hkey = KeyZero
    /\ hi = 7
    /\ hresult = <<0, 0>>

\* The j-th 16-bit limb of a BigInt, lowest first.
Limb(n, j) == IF j <= Len(n) THEN n[j] ELSE 0

\* The j-th byte of a key, 0 beyond its end.
ByteAt(key, j) == IF j <= Len(key) THEN key[j] ELSE 0

\* C23: defaultHash(key) is below 2^64; its low 32 bits are originalHash(key)
\* and its high 32 bits are the little-endian word of the first four key
\* bytes, zero-padded when the key is shorter; so defaultHash and
\* originalHash have the same low 8 bits, the bucket.
C23_DefaultHashLayout ==
    (hpc = "returned" /\ hfn = "defaultHash") =>
        /\ Len(hresult) <= 4
        /\ \A j \in 1 .. Len(hresult) : hresult[j] \in 0 .. (Half - 1)
        /\ <<Limb(hresult, 2), Limb(hresult, 1)>> = Fold33(hkey, Len(hkey))
        /\ Limb(hresult, 3) = ByteAt(hkey, 1) + (256 * ByteAt(hkey, 2))
        /\ Limb(hresult, 4) = ByteAt(hkey, 3) + (256 * ByteAt(hkey, 4))
        /\ Limb(hresult, 1) % 256 = Low8(hhash)

\* defaultHash has returned for the two-byte key <<97, 255>>: the high word
\* is 0x0000ff61.
C23_Witness ==
    /\ hpc = "returned"
    /\ hfn = "defaultHash"
    /\ hkey = <<97, 255>>
    /\ Limb(hresult, 3) = 65377
    /\ Limb(hresult, 4) = 0
    /\ <<Limb(hresult, 2), Limb(hresult, 1)>> = hhash

\* The slots of the file's table region from the one at file offset position
\* on, count of them.
SlotsAt(f, position, count) ==
    [j \in 1 .. count |-> SlotAt(f, position + ((j - 1) * 8))]

\* The buckets whose list the step discards.
Discarded == {b \in DOMAIN hashtables : b \notin DOMAIN hashtables'}

\* C24: a completed close leaves the writer without entries: every bucket
\* list has been discarded, and a list is discarded only in the step that
\* has built its slot table and handed it to the hashtable sink, at the
\* position the header entry of the bucket records.
C24_ListsDiscardedAfterWrite ==
    [][/\ \A b \in Discarded :
              SlotsAt(file', header'[b].position, 2 * Len(hashtables[b]))
                  = BufferSlots(getBufferForHashtable(hashtables[b]),
                                2 * Len(hashtables[b]))
       /\ (closeCb' = "ok") => hashtables' = <<>>]_vars

\* A close of a file with two records in different buckets has completed and
\* no list is left.
C24_Witness ==
    /\ closeCb = "ok"
    /\ wpc = "finished"
    /\ hashtables = <<>>
    /\ Len(puts) = 2
    /\ PutsInBuckets({0}) = 1
    /\ Len(file.tables) = 4

\* The key bytes stored in the record the probe is looking at equal the
\* query key (the slot's hash and the stored key length already matched).
TrueMatch ==
    BufferToString(ReadBytes(file, env.recordPosition + 8, env.keyLength)) = env.key

\* C25: when checkKey advances the probe, the remaining occurrence count goes
\* down by one if the slot was a true match and stays as it is if the stored
\* key bytes differ from the query key.
C25_DecrementOnlyOnTrueMatch ==
    [][(rpc = "checkKey" /\ rpc' = "checkHash")
          => env'.offset = IF TrueMatch THEN env.offset - 1 ELSE env.offset]_vars

\* The slot the probe has just read has a zero hash field.
ZeroHashSlot == SlotAt(file, env.hashPosition).hash = ZeroHash

\* C26: a slot whose hash field is zero ends the probe (with not-found, or
\* with the error of the slot read) and no record read follows it, whatever
\* the hash of the query key; no record read is ever issued at file
\* position 0.
C26_ZeroHashEndsProbe ==
    [][/\ (rpc = "checkHash" /\ ZeroHashSlot)
             => (rpc' = "idle" /\ result' \in {NotFound, IOError})
       /\ (rpc' = "readKey") => env'.recordPosition # 0]_vars

\* The record behind the slot that matched the hash stores a key of another
\* length than the query key.
KeyLengthDiffers == ReadWords(file, env.recordPosition)[1] # byteLength(env.key)

\* C27: when the slot's hash equals the query hash and the stored key length
\* differs from the query key's, readKey (no read error) goes to the next slot,
\* modulo the slot count, by one slot read: it reads neither the key bytes nor
\* the value, it does not touch the occurrence counter and it does not invoke
\* the callback.
C27_LengthMismatchSkips ==
    [][(rpc = "readKey" /\ KeyLengthDiffers /\ result' # IOError)
          => /\ rpc' = "checkHash"
             /\ env'.slot = (env.slot + 1) % env.slotCount
             /\ env'.hashPosition = env.position + (env'.slot * 8)
             /\ env'.offset = env.offset
             /\ reads' = CountRead(reads)
             /\ calls' = calls
             /\ result' = result]_vars

\* A get of "vpbzfti" has met the record of "cphvahfg" behind slot 0 (same
\* hash, 8 bytes of key instead of 7) and stands at slot 1 after three reads:
\* slot 0, the two length words, slot 1.
C27_Witness ==
    /\ rpc = "checkHash"
    /\ env.key = KeyZero
    /\ env.keyLength = byteLength(KeyCPHVAHFG)
    /\ env.trueKeyLength = 7
    /\ env.slot = 1
    /\ reads = 3
    /\ calls = 0

\* The two generations after the first k readBlock calls of the read that the
\* step issues.
CacheAfterCalls(k) ==
    readBlocks([new |-> newCache, old |-> oldCache, rotated |-> rotated, log |-> <<>>],
               quotient(cop'.start, blockSize), k, 0)

\* The k-th readBlock call of the read that the step issues found its block
\* in the new generation: the call has returned that block and has left both
\* generations as they were.
NewGenerationHit(k) ==
    LET before == CacheAfterCalls(k - 1)
        after  == CacheAfterCalls(k)
        call   == cblocks'[k]
    IN  /\ call.done
        /\ call.block = before.new[call.index]
        /\ after.new = before.new
        /\ after.old = before.old

\* It found its block in the old generation only: the call has returned that
\* block, which has left the old generation and is in the new one.
OldGenerationHit(k) ==
    LET before == CacheAfterCalls(k - 1)
        after  == CacheAfterCalls(k)
        call   == cblocks'[k]
    IN  /\ call.done
        /\ call.block = before.old[call.index]
        /\ call.index \notin DOMAIN after.old
        /\ call.index \in DOMAIN after.new
        /\ after.new[call.index] = before.old[call.index]

\* It found its block in neither generation: the call waits for one read of
\* the underlying reader and has left both generations as they were.
GenerationMiss(k) ==
    LET before == CacheAfterCalls(k - 1)
        after  == CacheAfterCalls(k)
        call   == cblocks'[k]
    IN  /\ ~call.done
        /\ call.from = "read"
        /\ after.new = before.new
        /\ after.old = before.old

\* The calls whose underlying read is under way.
PendingCalls(log) == {k \in 1 .. Len(log) : ~log[k].done}

\* C28: of the readBlock calls a read makes, one whose block is in the new
\* generation returns it without an underlying read and changes neither
\* generation; one whose block is in the old generation only returns it without
\* an underlying read, removes it from the old generation and inserts it into
\* the new one; one whose block is in neither generation, and no other, starts
\* an underlying read, and every such call gets the bytes of one read of
\* [index * blockSize, index * blockSize + blockSize) and puts them into the
\* new generation.
C28_ReadBlockEffects ==
    [][/\ (cpc = "idle" /\ cpc' = "reading") =>
             /\ CacheAfterCalls(Len(cblocks')).new = newCache'
             /\ CacheAfterCalls(Len(cblocks')).old = oldCache'
             /\ \A k \in 1 .. Len(cblocks') :
                   LET before == CacheAfterCalls(k - 1)
                       index  == cblocks'[k].index
                   IN  IF index \in DOMAIN before.new THEN NewGenerationHit(k)
                       ELSE IF index \in DOMAIN before.old THEN OldGenerationHit(k)
                       ELSE GenerationMiss(k)
       /\ (cpc = "reading" /\ cpc' = "reading") =>
             \E k \in PendingCalls(cblocks) :
                 /\ PendingCalls(cblocks') = PendingCalls(cblocks) \ {k}
                 /\ cblocks'[k].block
                       = SourceBytes(cblocks[k].index * blockSize, blockSize)
                 /\ cblocks[k].index \in DOMAIN newCache'
                 /\ newCache'[cblocks[k].index] = cblocks'[k].block
                 /\ \A j \in (1 .. Len(cblocks)) \ {k} : cblocks'[j] = cblocks[j]
       /\ (cpc = "reading" /\ cpc' = "idle") =>
             (PendingCalls(cblocks) = {} /\ newCache' = newCache /\ oldCache' = oldCache)]_vars

\* One read has met all three cases: its first call has moved its block from
\* the old generation to the new one, its second call found its block in the
\* new generation, and its third call waits for the underlying reader.
C28_Witness ==
    /\ cpc = "reading"
    /\ Len(cblocks) = 3
    /\ cblocks[1].from = "old"
    /\ cblocks[2].from = "new"
    /\ cblocks[3].from = "read"
    /\ PendingCalls(cblocks) = {3}
    /\ cblocks[1].index \in DOMAIN newCache
    /\ cblocks[1].index \notin DOMAIN oldCache

\* The slot table of bucket b as the step has written it to the file, slots
\* indexed from 0.
ProducedTable(b) ==
    LET slots == SlotsAt(file', header'[b].position, 2 * Len(hashtables[b]))
    IN  [s \in 0 .. (Len(slots) - 1) |-> slots[s + 1]]

\* The slots of a table that hold an entry (position field not 0).
OccupiedIn(table) == {s \in DOMAIN table : table[s].position # 0}

\* The entries of a bucket list that a slot of the table holds, in the order
\* of the list (the order of the puts).
EntriesKept(hashtable, table) ==
    SelectSeq(hashtable, LAMBDA entry : \E s \in OccupiedIn(table) : table[s] = entry)

RECURSIVE Reinsert(_, _, _)
\* The builder's loop run over the entries from the i-th on, on a buffer whose
\* slot count is given: home slot, look for an empty slot, write.
Reinsert(entries, i, buffer) ==
    IF i > Len(entries) THEN buffer
    ELSE LET slotCount == Cardinality(DOMAIN buffer)
             slot == EmptySlot(buffer, Shr8(entries[i].hash) % slotCount, slotCount)
         IN  Reinsert(entries, i + 1,
                 [buffer EXCEPT ![slot] = [hash |-> entries[i].hash,
                                           position |-> entries[i].position]])

\* The slots from slot first to slot last, going up and around the table.
CyclicPath(first, last, slotCount) ==
    {(first + d) % slotCount : d \in 0 .. ((last - first + slotCount) % slotCount)}

\* Two occupied slots whose entries have the same home slot show the probing:
\* every slot from the home slot to the slot of the entry put later holds an
\* entry.
ProbingEvident(table) ==
    LET slotCount == Cardinality(DOMAIN table)
        home(s)   == Shr8(table[s].hash) % slotCount
    IN  \A s1, s2 \in OccupiedIn(table) :
            (home(s1) = home(s2) /\ table[s1].position < table[s2].position)
                => CyclicPath(home(s2), s2, slotCount) \subseteq OccupiedIn(table)

\* C29: a slot table the builder has produced is a fixed point of the
\* builder's probing: the entries in its occupied slots, re-inserted in the
\* order they were put into a zero-filled table of the same size, give the
\* same table; and two occupied slots hold entries with the same home slot
\* only if every slot from the home slot to the later entry's slot is occupied.
C29_TableIsFixedPoint ==
    [][\A b \in Discarded :
          LET table == ProducedTable(b)
              empty == [s \in DOMAIN table |-> [hash |-> ZeroHash, position |-> 0]]
          IN  /\ Reinsert(EntriesKept(hashtables[b], table), 1, empty) = table
              /\ ProbingEvident(table)]_vars

\* Three records whose keys have the hash of "ap" are in a table of six slots:
\* their home slot is 4, and they hold the slots 4, 5 and, around the end of
\* the table, 0.
C29_Witness ==
    /\ TablesWritten
    /\ Len(puts) = 3
    /\ PutsInBuckets({52}) = 3
    /\ Len(file.tables) = 6
    /\ {j \in 1 .. 6 : file.tables[j].position # 0} = {1, 5, 6}
    /\ file.tables[5].position < file.tables[6].position
    /\ file.tables[6].position < file.tables[1].position

\* The slots of a table that hold the given entry of the bucket list.
SlotsHolding(table, entry) == {s \in DOMAIN table : table[s] = entry}

\* The number of probe steps from the entry's home slot to slot s.
ProbeDistance(table, entry, s) ==
    LET slotCount == Cardinality(DOMAIN table)
    IN  (s - (Shr8(entry.hash) % slotCount) + slotCount) % slotCount

\* The slots the reader takes for the empty sentinel: the hash field is 0.
ReaderEmpty(table) == {s \in DOMAIN table : table[s].hash = ZeroHash}

\* C30: in every slot table the builder has produced, every entry of the
\* bucket list is held by a slot, and no slot on the cyclic path from the
\* entry's home slot to that slot has a zero hash field, which the reader
\* takes for the empty sentinel; entries with equal hash lie along the probe
\* path in the order they were put.
C30_ProbePathNonEmpty ==
    [][\A b \in Discarded :
          LET table     == ProducedTable(b)
              entries   == hashtables[b]
              slotCount == Cardinality(DOMAIN table)
              home(e)   == Shr8(e.hash) % slotCount
          IN  /\ \A i \in 1 .. Len(entries) :
                    \E s \in SlotsHolding(table, entries[i]) :
                        CyclicPath(home(entries[i]), s, slotCount) \cap ReaderEmpty(table) = {}
              /\ \A i, j \in 1 .. Len(entries) :
                    (i < j /\ entries[i].hash = entries[j].hash)
                        => \A si \in SlotsHolding(table, entries[i]),
                              sj \in SlotsHolding(table, entries[j]) :
                               ProbeDistance(table, entries[i], si)
                                   < ProbeDistance(table, entries[j], sj)]_vars

\* C31: no block index is in both generations at once, whatever the order in
\* which readBlock calls that run at the same time complete, two calls for
\* one index that both miss and both fetch included.
C31_GenerationsDisjoint ==
    (DOMAIN newCache) \cap (DOMAIN oldCache) = {}

\* C32: the cache holds no more blocks than the configured limit: for every
\* positive blocksLimit, odd or even, the sizes of the two generations add up
\* to blocksLimit at most.
C32_CacheWithinLimit ==
    (cpc \in {"idle", "reading"} /\ blocksLimit >= 1)
        => Cardinality(DOMAIN newCache) + Cardinality(DOMAIN oldCache) <= blocksLimit

\* C33: a get that ends in not-found or in an error leaves the bookmark as it
\* was: the bookmark is written only when a value is delivered.
C33_BookmarkOnlyOnValue ==
    [][(op'.name = "get" /\ rpc' = "idle" /\ result' \in {NotFound, IOError})
          => bookmark' = bookmark]_vars

RECURSIVE ProbeAlone(_, _, _, _)
\* What the probe of a get for key answers when nothing else runs and no read
\* fails, from slot on with offset matches still to skip: the steps of
\* checkHash, readKey, checkKey and returnData on the file.  fuel bounds the
\* slots visited; a probe that goes round the table for ever has no answer.
ProbeAlone(key, slot, offset, fuel) ==
    LET hashtable  == rheader[Low8(HashOf[key])]
        found      == SlotAt(file, HashPosition(hashtable.position, slot,
                                                hashtable.slotCount))
        words      == ReadWords(file, found.position)
        stored     == ReadBytes(file, found.position + 8, words[1])
    IN  IF fuel = 0 THEN NoResult
        ELSE IF found.hash = HashOf[key]
        THEN IF words[1] # byteLength(key)
             THEN ProbeAlone(key, slot + 1, offset, fuel - 1)
             ELSE IF BufferToString(stored) = key /\ offset = 0
             THEN Data(ReadBytes(file, found.position + 8 + words[1], words[2]))
             ELSE ProbeAlone(key, slot + 1, IF offset # 0 THEN offset - 1 ELSE 0,
                             fuel - 1)
        ELSE IF found.hash = ZeroHash THEN NotFound
        ELSE ProbeAlone(key, slot + 1, offset, fuel - 1)

\* The result of get(key, offset) run alone on the opened file.
Alone(key, offset) ==
    LET hashtable == rheader[Low8(HashOf[key])]
    IN  IF hashtable.slotCount = 0 THEN NotFound
        ELSE ProbeAlone(key, Shr8(HashOf[key]) % hashtable.slotCount, offset,
                        hashtable.slotCount * (offset + 1) + 1)

\* The get of closure c has called back, and not with an I/O error.
GetAnswered2(c) ==
    /\ c.used
    /\ c.rpc = "idle"
    /\ c.op.name = "get"
    /\ c.result.kind \in {"data", "notFound"}

\* After the step each get that has called back did so once and with the
\* result of the same get run alone.
ResultsAsAlone ==
    \A c \in {Running', other'} :
        GetAnswered2(c) => /\ c.result = Alone(c.op.key, c.op.occurrence)
                           /\ c.calls = 1

\* No step of a get or a getNext changes the header entries.
HeaderEntriesKept ==
    rpc \in {"idle", "checkHash", "readKey", "checkKey", "returnData"}
        => rheader' = rheader

\* The bookmark changes only in the returnData of a get, and becomes the
\* closure of that get.
BookmarkByReturnData ==
    bookmark' # bookmark
        => /\ rpc = "returnData"
           /\ rpc' = "idle"
           /\ bookmark' = env

\* Two gets in flight: results, header entries and the writer of the bookmark.
PairIndependent ==
    [][(other.used \/ other'.used)
          => ResultsAsAlone /\ HeaderEntriesKept /\ BookmarkByReturnData]_vars

\* Both gets of a pair have called back with data, for different keys, and
\* the bookmark is the closure of the one that called back last.
PairAnswered ==
    /\ GetAnswered2(other) /\ GetAnswered2(Running)
    /\ other.result.kind = "data" /\ result.kind = "data"
    /\ other.op.key # op.key
    /\ bookmark.key = op.key

\* The bookmark is the closure of a get that called back with an I/O error,
\* while the other get of the pair has delivered its value.
BookmarkOfFailedGet ==
    /\ GetAnswered2(other) /\ other.result.kind = "data"
    /\ other.op.key = KeyAP
    /\ rpc = "idle" /\ op.key = KeyG6 /\ result = IOError
    /\ bookmark.key = KeyG6

\* C34: two gets issued without waiting for each other do not corrupt each
\* other's result: whatever the order of their read completions each callback
\* gets the result of its get run alone; the header entries are not changed;
\* and the bookmark, the one thing they share, is written only by a get that
\* delivers its value, so that it belongs to the get that delivered last.
C34_ConcurrentGetsIndependent ==
    [][(other.used \/ other'.used)
          => /\ ResultsAsAlone
             /\ HeaderEntriesKept
             /\ BookmarkByReturnData
             /\ bookmark' # bookmark => result'.kind = "data"]_vars

\* Byte j (0 the least significant) of an integer held as limbs.
ByteOf(v, j) == (v[(j \div 2) + 1] \div (IF j % 2 = 0 THEN 1 ELSE 256)) % 256

\* write has returned and read gives the value back; the bytes of the value
\* are in the buffer from offset on, least significant first (which for the
\* 64-bit codecs is v mod 2^32 in the first four bytes and floor(v / 2^32) in
\* the next four); every other byte is as it was.
RoundTrips ==
    /\ kpc # "threw"
    /\ kpc = "read" => kread = kvalue
    /\ Len(kafter) = Len(kbuffer)
    /\ \A j \in 0 .. (CodecSize(kcodec) - 1) : kafter[koffset + 1 + j] = ByteOf(kvalue, j)
    /\ \A j \in 1 .. Len(kbuffer) :
          (j <= koffset \/ j > koffset + CodecSize(kcodec)) => kafter[j] = kbuffer[j]

\* The value type of the codec holds the integer exactly: any integer for a
\* bigint, the integers that are doubles for a number.
HeldExactly(codec, v) == Argument(codec, v) = v

\* C35 as stated: for every offset inside the buffer and every value in the
\* codec's range (below 2^32, or below 2^64) the write followed by the read at
\* the same offset gives the value back, the bytes are stored least
\* significant first, and no byte outside [offset, offset + size) changes.
C35_CodecRoundTrip ==
    (kpc # "new" /\ koffset < Len(kbuffer)) => RoundTrips

\* C35, amended: the same for every offset with offset + size within the
\* buffer and every value in the codec's range that the codec's value type
\* holds exactly.
C35_CodecRoundTripInBounds ==
    (kpc # "new" /\ koffset + CodecSize(kcodec) <= Len(kbuffer)
                 /\ HeldExactly(kcodec, kvalue)) => RoundTrips

\* The number codec has written 0x0807060504030200 at offset 1 of a buffer of
\* ten bytes 255 and read it back.
C35_Witness ==
    /\ kpc = "read"
    /\ kcodec = "uInt64LE"
    /\ kvalue = <<512, 1027, 1541, 2055>>
    /\ kbuffer = [j \in 1 .. 10 |-> 255]
    /\ koffset = 1
    /\ kread = kvalue
    /\ kafter = <<255, 0, 2, 3, 4, 5, 6, 7, 8, 255>>

\* The write at an offset inside the buffer with fewer than size bytes left
\* throws; the 64-bit write has stored the low word before it does.
WriteBeyondEnd ==
    /\ kpc = "threw"
    /\ kcodec = "uInt64LEBigInt"
    /\ koffset + 4 <= Len(kbuffer)
    /\ koffset + 8 > Len(kbuffer)
    /\ kafter # kbuffer

\* The number codec is handed 2^53 + 1 in bounds and reads 2^53 back.
RoundedValue ==
    /\ kpc = "read"
    /\ kcodec = "uInt64LE"
    /\ kvalue = <<1, 0, 0, 32>>
    /\ kread = <<0, 0, 0, 32>>

=============================================================================
